---------------------------- MODULE Spec2Model ----------------------------
(***************************************************************************)
(* One EnsimeClient session of ensime-vim (src/ensime_shared/client.py):   *)
(* the foreground thread that the editor drives (setup, tick, unqueue,     *)
(* send_request, teardown), the background 'queue-poller' thread that      *)
(* owns the event loop (run_queuer, queue_poll), the hand-offs between the *)
(* two (run_coroutine_threadsafe(...).result(timeout)), and the server     *)
(* process and its websocket as the environment.                           *)
(*                                                                         *)
(* The foreground operations are computed on a record c that holds the     *)
(* client's fields; each operator below is one method of the class and     *)
(* returns the record after the call.  Some fields of the record are not   *)
(* fields of the class: exc (the exception that is propagating, "none"     *)
(* when the call returned normally), ret (the value the call returned),    *)
(* msg (the editor.message the call showed, "none" for none), fail/co      *)
(* (what the next hand-offs to the background loop will do, chosen by the  *)
(* environment).                                                           *)
(***************************************************************************)
EXTENDS Integers, Sequences, FiniteSets

\* ------------------------------------------------------------- bounds ----
MaxCalls == 2      \* send_request calls in one run
MaxMsgs  == 2      \* frames the server sends in one run
MaxWarn  == 2      \* "A WS exception happened" warnings in one run
MaxStops == 1      \* calls of EnsimeProcess.stop() in one run
MaxStale == 1      \* timed-out queue.get() hand-offs not yet resolved
MaxClients == 2    \* clients created by client_for in one run
MaxNotes == 3      \* notes the typecheck handlers are given between two starts
MaxDisplays == 2   \* editor.display_notes calls in one run
MaxUi == 2         \* cursor and timer events in one run
MaxCompletions == 3  \* complete_func calls in one run

\* ------------------------------------------------- program constants ----
InitialTryConnection == 1     \* self.number_try_connection = 1

\* Kinds of frame the server can send, by what unqueue does with them:
\*   valid        {"callId": n, "payload": {"typehint": ...}}, handler returns
\*   null         {"callId": n, "payload": null}
\*   throws       a decodable frame whose handler raises
\*   undecodable  not JSON: json.loads raises
Kinds == {"valid", "null", "throws", "undecodable"}

\* The frames of a server that also sends events nobody asked for:
\*   event        {"payload": {"typehint": ...}}: no callId, handler returns
EventKinds == {"valid", "event"}

\* The project configurations the editor's buffers belong to, as the paths
\* ProjectConfig.find_from gives, and os.path.abspath of them.
ConfigPaths == {"p/.ensime", "./p/.ensime", "q/.ensime"}
AbsPaths == {"/p/.ensime", "/q/.ensime"}
abspath(config_path) ==
    IF config_path = "q/.ensime" THEN "/q/.ensime" ELSE "/p/.ensime"

VARIABLES
    \* fields of EnsimeClient
    running, ws, ensime, call_id, call_options, number_try_connection,
    connection_attempts, toggle_teardown, queue,
    \* the two threads
    fgpc,            \* "idle", or "drain" inside unqueue_and_display's loop
    bgpc,            \* "init" (ws_loop is None), "head", "recv", "done"
    pending_connect, \* a connect() coroutine whose hand-off timed out
    stale_gets,      \* queue.get() coroutines whose hand-off timed out
    \* the environment
    server,          \* "down", "starting", "ready", "stopped"
    installed,       \* launcher.strategy.isinstalled()
    nrecv,           \* frames received so far by ws.recv()
    \* what happened (history)
    frames,          \* frames handed to ws.send, in order
    returned,        \* per send_request call: the callId built, the value returned
    events,          \* per message taken from the queue: what became of it
    warnings,        \* _display_ws_warning calls
    stops,           \* EnsimeProcess.stop() calls
    connects,        \* websockets.client.connect attempts
    escaped,         \* the exceptions that have left a foreground call
    send_failed,     \* a ws.send hand-off has failed
    wire,            \* the frames ws.recv() has returned, in order
    tick_start,      \* [queue, ws] when the tick that is draining began
    \* the plugin (class Ensime) and the clients it has created
    clients,         \* Ensime.clients: absolute path -> client, 0 for no key
    sessions,        \* the clients created by client_for, in order
    \* the launcher (class EnsimeLauncher) of the client, looked into
    files,           \* what is on disk: jars, bootstrap classpath, java
    strategy,        \* launcher.strategy, "None" while it is not looked into
    spawned,         \* subprocess.Popen calls
    shown,           \* the editor.message keys shown
    launched,        \* what the last EnsimeLauncher.launch() did, "none" at first
    \* fields of EnsimeClient that its commands and handlers use
    call_option_values,              \* call_options: the options dict of each key
    currently_buffering_typechecks,  \* TypecheckHandler
    buffered_notes,                  \* TypecheckHandler
    suggestions,                     \* "None" or the list of the last reply
    completion_started,
    \* what the commands did (history)
    displayed,       \* the lists given to editor.display_notes, in order
    notes_received,  \* the notes the handlers were given since start_typechecking
    completions,     \* what each complete_func call returned
    ui_events        \* au_cursor_moved, au_cursor_hold and fun_en_tick calls

vars == << running, ws, ensime, call_id, call_options, number_try_connection,
           connection_attempts, toggle_teardown, queue, fgpc, bgpc,
           pending_connect, stale_gets, server, installed, nrecv, frames,
           returned, events, warnings, stops, connects, escaped,
           send_failed, wire, tick_start, clients, sessions,
           files, strategy, spawned, shown, launched,
           call_option_values, currently_buffering_typechecks,
           buffered_notes, suggestions, completion_started, displayed,
           notes_received, completions, ui_events >>

\* The plugin's registry and the clients made through it
plugin == << clients, sessions >>

\* The launcher and the disk it looks at
launcher == << files, strategy, spawned, shown, launched >>

\* What the client's commands and handlers keep
commands == << call_option_values, currently_buffering_typechecks,
               buffered_notes, suggestions, completion_started, displayed,
               notes_received, completions, ui_events >>

\* ------------------------------------------------------------ helpers ----
Ids(q) == { q[i].id : i \in 1..Len(q) }

\* tick_start outside a tick's drain
NoTick == [queue |-> << >>, ws |-> "None"]

\* ws_loop as the foreground sees it: None until run_queuer has made it,
\* closed once run_queuer has ended.
ws_loop == CASE bgpc = "init" -> "None"
             [] bgpc = "done" -> "closed"
             [] OTHER         -> "open"

\* The client's fields as one record, with the transient fields:
\* co is what the next connect hand-off does, fail how many of the next
\* ws.send hand-offs fail.
Client(co, fail) ==
    [ running |-> running, ws |-> ws, ensime |-> ensime, call_id |-> call_id,
      call_options |-> call_options,
      number_try_connection |-> number_try_connection,
      toggle_teardown |-> toggle_teardown, queue |-> queue,
      ws_loop |-> ws_loop, pending_connect |-> pending_connect,
      stale_gets |-> stale_gets, server |-> server, installed |-> installed,
      frames |-> frames, returned |-> returned, events |-> events,
      warnings |-> warnings, stops |-> stops, connects |-> connects,
      send_failed |-> send_failed,
      exc |-> "none", ret |-> FALSE, co |-> co, fail |-> fail,
      msg |-> "none" ]

\* util.catch (ensime_shared/util.py), used as `with catch(Exception, handler)`:
\* an exception raised in the block is passed to the handler and goes no
\* further.  The value is whether the exception leaves the block.
catch(raised) == FALSE

\* json.loads(result): raises on a frame that is not JSON.
json_loads_raises(kind) == kind = "undecodable"

\* ProtocolHandler.handle_incoming_response(call_id, payload): looks the
\* handler up by payload["typehint"] and calls it; a handler may raise.
handle_incoming_response_raises(kind) == kind = "throws"

\* -------------------------------------------------- EnsimeClient: send ----
RECURSIVE send(_, _), connect_ensime_server(_), send_request(_, _)

\* EnsimeProcess.stop(): kills the process.
stop(c) == [c EXCEPT !.stops = @ + 1, !.server = "stopped"]

\* shutdown_server that does not look at toggle_teardown
shutdown_server_always(c) ==
    IF c.ensime # "None" THEN stop(c) ELSE c

\* shutdown_server()
shutdown_server(c) ==
    IF c.ensime # "None" /\ c.toggle_teardown THEN stop(c) ELSE c

\* do_toggle_teardown(args, range)
do_toggle_teardown(c) == [c EXCEPT !.toggle_teardown = ~@]

_display_ws_warning(c) == [c EXCEPT !.warnings = @ + 1]

\* disable_completely(e), the handler of connect_ensime_server.
disable_completely(c) == _display_ws_warning(shutdown_server(c))

\* send_it without its own `with catch(Exception, self.log.error)`: a failed
\* hand-off raises into send, whose handler reconnects and sends again.
send_it_uncaught(c, msg) ==
    LET ok     == c.fail = 0
        broken == c.ws = "None" \/ c.ws_loop # "open"
        sent   == [c EXCEPT !.frames = Append(@, [callId |-> msg.callId,
                                                   typehint |-> msg.typehint]),
                            !.fail = IF ok THEN 0 ELSE @ - 1,
                            !.send_failed = @ \/ ~ok]
    IN IF broken THEN [c |-> [c EXCEPT !.send_failed = TRUE], raised |-> TRUE]
                 ELSE [c |-> sent, raised |-> ~ok]

\* send_it(msg): one hand-off of ws.send(msg) to the background loop, inside
\* `with catch(Exception, self.log.error)`.  [c, raised]: the record after
\* the hand-off and whether an exception leaves send_it.
send_it(c, msg) ==
    LET ok     == c.fail = 0
        broken == c.ws = "None" \/ c.ws_loop # "open"
        sent   == [c EXCEPT !.frames = Append(@, [callId |-> msg.callId,
                                                   typehint |-> msg.typehint]),
                            !.fail = IF ok THEN 0 ELSE @ - 1,
                            !.send_failed = @ \/ ~ok]
    IN IF broken THEN [c |-> [c EXCEPT !.send_failed = TRUE], raised |-> catch(TRUE)]
                 ELSE [c |-> sent, raised |-> catch(~ok)]

\* send(msg)
send(c, msg) ==
    IF c.running /\ c.ws # "None"
    THEN LET r == send_it(c, msg)
         IN IF ~r.raised THEN r.c
            ELSE \* reconnect(e), the handler of the outer catch
                 LET c1 == connect_ensime_server(r.c)
                 IN IF c1.exc # "none" THEN c1
                    ELSE IF c1.ws # "None" THEN send_it(c1, msg).c ELSE c1
    ELSE c

\* connect_ensime_server guarded by `if self.running:` alone: the budget is
\* counted down but never consulted.
connect_ensime_server_unguarded(c) ==
    IF c.running
    THEN LET c1 == [c EXCEPT !.number_try_connection = @ - 1,
                             !.connects = @ + 1]
             out == IF c.ws_loop # "open" THEN "error" ELSE c.co
         IN CASE out = "ok" ->
                   send_request([c1 EXCEPT !.ws = "sock"], "ConnectionInfoReq")
              [] out = "error" ->
                   [disable_completely(c1) EXCEPT !.exc = "UnboundLocalError"]
              [] OTHER ->
                   [disable_completely(c1) EXCEPT !.exc = "UnboundLocalError",
                                                  !.pending_connect = TRUE]
    ELSE disable_completely(c)

\* connect_ensime_server without `if gotws: self.send_request(...)`
connect_ensime_server_silent(c) ==
    IF c.running /\ c.number_try_connection # 0
    THEN LET c1 == [c EXCEPT !.number_try_connection = @ - 1,
                             !.connects = @ + 1]
             out == IF c.ws_loop # "open" THEN "error" ELSE c.co
         IN CASE out = "ok" -> [c1 EXCEPT !.ws = "sock"]
              [] out = "error" ->
                   [disable_completely(c1) EXCEPT !.exc = "UnboundLocalError"]
              [] OTHER ->
                   [disable_completely(c1) EXCEPT !.exc = "UnboundLocalError",
                                                  !.pending_connect = TRUE]
    ELSE disable_completely(c)

\* connect_ensime_server()
connect_ensime_server(c) ==
    IF c.running /\ c.number_try_connection # 0
    THEN LET c1 == [c EXCEPT !.number_try_connection = @ - 1,
                             !.connects = @ + 1]
             \* the hand-off raises at once without a usable loop
             out == IF c.ws_loop # "open" THEN "error" ELSE c.co
         IN CASE out = "ok" ->
                   \* gotws is True
                   send_request([c1 EXCEPT !.ws = "sock"], "ConnectionInfoReq")
              [] out = "error" ->
                   \* disable_completely(e); then `if gotws:` reads a local
                   \* that was never assigned
                   [disable_completely(c1) EXCEPT !.exc = "UnboundLocalError"]
              [] OTHER ->
                   \* result(10) timed out: as an error, and the connect()
                   \* coroutine is still running on the loop
                   [disable_completely(c1) EXCEPT !.exc = "UnboundLocalError",
                                                  !.pending_connect = TRUE]
    ELSE disable_completely(c)

\* send_request(request).  The value returned goes to `returned`, beside the
\* callId of the message the call built.
\* send_request with `self.call_id += 1` moved under send's guard: the
\* counter moves only when a frame could be sent.
send_request_counts_sent(c, typehint) ==
    LET message == [callId |-> c.call_id, typehint |-> typehint]
        c1      == send(c, message)
    IN IF c1.exc # "none" THEN c1
       ELSE [c1 EXCEPT !.returned = Append(@, [built |-> message.callId,
                                               ret   |-> c1.call_id]),
                       !.call_id = IF c.running /\ c.ws # "None"
                                   THEN @ + 1 ELSE @]

send_request(c, typehint) ==
    LET message == [callId |-> c.call_id, typehint |-> typehint]
        c1      == send(c, message)
    IN IF c1.exc # "none" THEN c1
       ELSE [c1 EXCEPT !.returned = Append(@, [built |-> message.callId,
                                               ret |-> c1.call_id]),
                       !.call_id = @ + 1]

\* ------------------------------------------------- EnsimeClient: setup ----
\* The launch without `except InvalidJavaPathError`: the error leaves
\* lazy_initialize_ensime and setup.
launch_uncaught(c, lo) ==
    CASE lo = "proc" -> [c EXCEPT !.ensime = "proc", !.server = "starting",
                                  !.installed = TRUE]
      [] lo = "None" /\ ~c.installed -> c
      [] lo = "LaunchError" -> [c EXCEPT !.exc = "LaunchError"]
      [] OTHER -> [c EXCEPT !.installed = TRUE,
                            !.exc = "InvalidJavaPathError"]

\* `try: self.ensime = self.launcher.launch()` with its except clause, by the
\* outcome lo of EnsimeLauncher.launch(): "proc" (an EnsimeProcess), "None"
\* (strategy.install() failed), "InvalidJavaPathError" (caught, and
\* editor.message('invalid_java')) or "LaunchError" (not caught).
launch(c, lo) ==
    CASE lo = "proc" -> [c EXCEPT !.ensime = "proc", !.server = "starting",
                                  !.installed = TRUE]
      [] lo = "None" /\ ~c.installed -> c
      [] lo = "LaunchError" -> [c EXCEPT !.exc = "LaunchError"]
      [] OTHER -> [c EXCEPT !.installed = TRUE, !.msg = "invalid_java"]

\* lazy_initialize_ensime(): ret is its value
lazy_initialize_ensime(c, bootstrap_server, lo) ==
    IF c.ensime = "None"
    THEN IF ~c.installed /\ ~bootstrap_server
         THEN [c EXCEPT !.ret = FALSE]
         ELSE LET c1 == launch(c, lo)
              IN [c1 EXCEPT !.ret = (c1.ensime # "None")]
    ELSE [c EXCEPT !.ret = TRUE]

\* EnsimeProcess.is_ready()
is_ready(c) == c.server = "ready"

\* ready_to_connect()
\* ready_to_connect without `not self.ws`: it connects whenever the server
\* is ready.
ready_to_connect_again(c) ==
    LET c1 == IF is_ready(c) THEN connect_ensime_server(c) ELSE c
    IN IF c1.exc # "none" THEN c1 ELSE [c1 EXCEPT !.ret = TRUE]

ready_to_connect(c) ==
    LET c1 == IF c.ws = "None" /\ is_ready(c) THEN connect_ensime_server(c)
                                               ELSE c
    IN IF c1.exc # "none" THEN c1 ELSE [c1 EXCEPT !.ret = TRUE]

\* setup(quiet, bootstrap_server)
setup(c, bootstrap_server, lo) ==
    IF ~c.running THEN [c EXCEPT !.ret = FALSE]
    ELSE LET c1 == lazy_initialize_ensime(c, bootstrap_server, lo)
         IN IF c1.ret THEN ready_to_connect(c1) ELSE c1

\* teardown()
teardown(c) == shutdown_server([c EXCEPT !.running = FALSE])

\* ----------------------------------------------- EnsimeClient: unqueue ----
\* call_id = _json.get("callId"): None when the frame has no callId
json_get_callId(kind) == IF kind = "event" THEN "None" ELSE "int"

\* unqueue whose dispatch first reads self.call_options[call_id]: KeyError
\* for a frame without callId
Outcome_looks_up(m) ==
    IF json_loads_raises(m.kind)
    THEN [out |-> "decode_error", raised |-> TRUE, call_id |-> "unset"]
    ELSE IF m.kind = "null"
    THEN [out |-> "no_payload", raised |-> FALSE,
          call_id |-> json_get_callId(m.kind)]
    ELSE IF handle_incoming_response_raises(m.kind)
            \/ json_get_callId(m.kind) = "None"
    THEN [out |-> "handler_error", raised |-> TRUE,
          call_id |-> json_get_callId(m.kind)]
    ELSE [out |-> "dispatched", raised |-> FALSE,
          call_id |-> json_get_callId(m.kind)]

\* What becomes of the message m that unqueue got from the queue: the event
\* recorded, whether handling it raised, and the call_id unqueue read from
\* it ("unset" when json.loads raised before).
Outcome(m) ==
    IF json_loads_raises(m.kind)
    THEN [out |-> "decode_error", raised |-> TRUE, call_id |-> "unset"]
    ELSE IF m.kind = "null"
    THEN [out |-> "no_payload", raised |-> FALSE,
          call_id |-> json_get_callId(m.kind)]
    ELSE IF handle_incoming_response_raises(m.kind)
    THEN [out |-> "handler_error", raised |-> TRUE,
          call_id |-> json_get_callId(m.kind)]
    ELSE [out |-> "dispatched", raised |-> FALSE,
          call_id |-> json_get_callId(m.kind)]

\* unqueue without `with catch(Exception, self.log.error)`: what json.loads
\* or the handler raises leaves unqueue.
unqueue_uncaught(c, timeout0, ho) ==
    IF c.ws_loop = "None"
    THEN [c EXCEPT !.exc = "AttributeError"]
    ELSE IF timeout0 /\ c.queue = << >>
    THEN [c EXCEPT !.ret = FALSE]
    ELSE IF c.ws_loop = "closed"
    THEN [c EXCEPT !.exc = "RuntimeError"]
    ELSE IF ho = "got" /\ c.queue # << >>
    THEN LET m  == Head(c.queue)
             o  == Outcome(m)
             c1 == [c EXCEPT !.queue = Tail(@),
                             !.events = Append(@, [id |-> m.id, out |-> o.out])]
         IN IF ~o.raised THEN [c1 EXCEPT !.ret = TRUE]
            ELSE [c1 EXCEPT !.exc = "Exception"]
    ELSE [c EXCEPT !.stale_gets = @ + 1, !.ret = FALSE]

\* unqueue(timeout): timeout0 is `timeout == 0`; ho is what the hand-off of
\* queue.get() does: "got" (a message in time) or "timeout".
unqueue(c, timeout0, ho) ==
    IF c.ws_loop = "None"
    THEN \* self.queue is None: AttributeError, caught and logged
         IF catch(TRUE) THEN [c EXCEPT !.exc = "AttributeError"]
                        ELSE [c EXCEPT !.ret = FALSE]
    ELSE IF timeout0 /\ c.queue = << >>
    THEN [c EXCEPT !.ret = FALSE]
    ELSE IF c.ws_loop = "closed"
    THEN \* run_coroutine_threadsafe on a closed loop: RuntimeError, caught
         IF catch(TRUE) THEN [c EXCEPT !.exc = "RuntimeError"]
                        ELSE [c EXCEPT !.ret = FALSE]
    ELSE IF ho = "got" /\ c.queue # << >>
    THEN LET m  == Head(c.queue)
             o  == Outcome(m)
             c1 == [c EXCEPT !.queue = Tail(@),
                             !.events = Append(@, [id |-> m.id, out |-> o.out])]
         IN IF ~o.raised THEN [c1 EXCEPT !.ret = TRUE]   \* return True
            ELSE IF catch(TRUE) THEN [c1 EXCEPT !.exc = "Exception"]
            ELSE [c1 EXCEPT !.ret = FALSE]               \* falls to return False
    ELSE \* asyncio.TimeoutError: resultFuture.cancel(), return False
         [c EXCEPT !.stale_gets = @ + 1, !.ret = FALSE]

\* ------------------------------------------------------ EnsimeLauncher ----
\* The disk as the launcher finds it: the assembly jar in base_dir, the
\* jars that .ensime lists under ensime-server-jars ("unlisted" for none),
\* the classpath file of the sbt bootstrap project, java-home/bin/java.
Files ==
    [ assembly_jar : BOOLEAN, server_jars : {"unlisted", "missing", "present"},
      classpath_file : BOOLEAN, java : {"ok", "missing", "not_executable"} ]
NoFiles ==
    [ assembly_jar |-> FALSE, server_jars |-> "unlisted",
      classpath_file |-> FALSE, java |-> "ok" ]
Strategies == {"AssemblyJar", "DotEnsimeLauncher", "SbtBootstrap"}

\* What `sbt saveClasspath` does in SbtBootstrap.install: "ok" writes the
\* classpath file; "failed_nvim" is a nonzero status in the nvim terminal
\* (install returns None); "failed" is a failure of the `!` command, which
\* install does not look at.
SbtOutcomes == {"ok", "failed", "failed_nvim"}

\* strategy.isinstalled()
isinstalled(st, f) ==
    CASE st = "AssemblyJar"       -> f.assembly_jar
      [] st = "DotEnsimeLauncher" -> f.server_jars = "present"
      [] OTHER                    -> f.classpath_file

\* EnsimeLauncher.__init__ with the first two tests in the other order
EnsimeLauncher_prefers_server_jars(f) ==
    IF f.server_jars # "unlisted" THEN "DotEnsimeLauncher"
    ELSE IF isinstalled("AssemblyJar", f) THEN "AssemblyJar"
    ELSE "SbtBootstrap"

\* EnsimeLauncher.__init__: the strategy it chooses
EnsimeLauncher(f) ==
    IF isinstalled("AssemblyJar", f) THEN "AssemblyJar"
    ELSE IF f.server_jars # "unlisted" THEN "DotEnsimeLauncher"
    ELSE "SbtBootstrap"

\* strategy.install(): the disk after it and the value it returns
install(st, f, sbt) ==
    IF st = "SbtBootstrap"
    THEN CASE sbt = "ok" -> [files |-> [f EXCEPT !.classpath_file = TRUE],
                             ret |-> TRUE]
           [] sbt = "failed_nvim" -> [files |-> f, ret |-> FALSE]
           [] OTHER -> [files |-> f, ret |-> TRUE]
    ELSE [files |-> f, ret |-> TRUE]

\* LaunchStrategy._start_process(classpath): [out, spawned], out the process
\* handle "proc" or the error raised, spawned the Popen calls made
_start_process(f) ==
    IF f.java # "ok" THEN [out |-> "InvalidJavaPathError", spawned |-> 0]
                     ELSE [out |-> "proc", spawned |-> 1]

\* strategy.launch() that goes on to _start_process unchecked
strategy_launch_unchecked(st, f) == _start_process(f)

\* strategy.launch() of AssemblyJar, DotEnsimeLauncher and SbtBootstrap
strategy_launch(st, f) ==
    IF ~isinstalled(st, f) THEN [out |-> "LaunchError", spawned |-> 0]
                           ELSE _start_process(f)

\* EnsimeProcess(cache_dir, None, None, ...).is_ready() in launch():
\* cache_dir is a 1-tuple (the trailing comma), os.path.join raises on it
\* inside http_port, and the bare except of is_ready returns False.
legacy_is_ready == FALSE

\* EnsimeLauncher.launch(): [out, files, spawned]
EnsimeLauncher_launch(st, f, sbt) ==
    IF legacy_is_ready THEN [out |-> "proc", files |-> f, spawned |-> 0]
    ELSE IF ~isinstalled(st, f)
    THEN LET i == install(st, f, sbt)
         IN IF ~i.ret THEN [out |-> "None", files |-> i.files, spawned |-> 0]
            ELSE LET r == strategy_launch(st, i.files)
                 IN [out |-> r.out, files |-> i.files, spawned |-> r.spawned]
    ELSE LET r == strategy_launch(st, f)
         IN [out |-> r.out, files |-> f, spawned |-> r.spawned]

\* ---------------------------------------------------------------- Init ----
Init ==
    /\ running = TRUE
    /\ ws = "None"
    /\ ensime = "None"
    /\ call_id = 0
    /\ call_options = {}
    /\ number_try_connection = InitialTryConnection
    /\ connection_attempts = "lt1000"
    /\ toggle_teardown = TRUE
    /\ queue = << >>
    /\ fgpc = "idle"
    /\ bgpc = "init"
    /\ pending_connect = FALSE
    /\ stale_gets = 0
    /\ server = "down"
    /\ installed \in BOOLEAN
    /\ nrecv = 0
    /\ frames = << >>
    /\ returned = << >>
    /\ events = << >>
    /\ warnings = 0
    /\ stops = 0
    /\ connects = 0
    /\ escaped = {}
    /\ send_failed = FALSE
    /\ wire = << >>
    /\ tick_start = NoTick
    /\ clients = [p \in AbsPaths |-> 0]
    /\ sessions = << >>
    /\ files = NoFiles
    /\ strategy = "None"
    /\ spawned = 0
    /\ shown = {}
    /\ launched = "none"
    /\ call_option_values = << >>
    /\ currently_buffering_typechecks = FALSE
    /\ buffered_notes = << >>
    /\ suggestions = "None"
    /\ completion_started = FALSE
    /\ displayed = << >>
    /\ notes_received = << >>
    /\ completions = << >>
    /\ ui_events = 0

\* ------------------------------------------------- foreground actions ----
ConnectOutcomes == {"ok", "error", "timeout"}
LaunchOutcomes  == {"proc", "None", "InvalidJavaPathError"}
HandOffs        == {"got", "timeout"}

\* The run stays inside the bounds.
Bounded(c) ==
    /\ Len(c.returned) <= MaxCalls
    /\ c.warnings <= MaxWarn
    /\ c.stops <= MaxStops
    /\ c.stale_gets <= MaxStale

\* The fields of the record become the client's fields.
Assign(c) ==
    /\ running' = c.running
    /\ ws' = c.ws
    /\ ensime' = c.ensime
    /\ call_id' = c.call_id
    /\ call_options' = c.call_options
    /\ number_try_connection' = c.number_try_connection
    /\ toggle_teardown' = c.toggle_teardown
    /\ queue' = c.queue
    /\ pending_connect' = c.pending_connect
    /\ stale_gets' = c.stale_gets
    /\ server' = c.server
    /\ installed' = c.installed
    /\ frames' = c.frames
    /\ returned' = c.returned
    /\ events' = c.events
    /\ warnings' = c.warnings
    /\ stops' = c.stops
    /\ connects' = c.connects
    /\ send_failed' = c.send_failed
    /\ escaped' = IF c.exc = "none" THEN escaped ELSE escaped \cup {c.exc}

\* The same, for a run inside the bounds
Apply(c) ==
    /\ Bounded(c)
    /\ Assign(c)

\* The hand-offs whose outcome the environment chooses, where the call makes
\* them: a connect (ready_to_connect finds no socket and a ready server), a
\* launch (no process handle yet), a ws.send, a queue.get.
Connects(c) ==
    IF c.running /\ c.ensime # "None" /\ c.ws = "None" /\ is_ready(c)
       /\ c.number_try_connection # 0 /\ c.ws_loop = "open"
    THEN ConnectOutcomes ELSE {"error"}
Launches(c, bootstrap_server) ==
    IF c.running /\ c.ensime = "None"
    THEN IF c.installed THEN {"proc", "InvalidJavaPathError"}
         ELSE IF bootstrap_server THEN LaunchOutcomes ELSE {"None"}
    ELSE {"None"}
Fails(c, co) ==
    IF c.running /\ c.ws_loop = "open" /\ (c.ws # "None" \/ co = "ok")
    THEN 0..1 ELSE {0}
Gets(c) ==
    IF c.ws_loop = "open" /\ c.queue # << >> THEN HandOffs ELSE {"timeout"}

\* tick(filename), up to the first unqueue(0) of unqueue_and_display.
\* connection_attempts counts to 1000: "lt1000" may stay or become "ge1000".
Tick(co, fail, lo) ==
    /\ fgpc = "idle"
    /\ connection_attempts = "lt1000" \/ (co = "error" /\ lo = "None" /\ fail = 0)
    /\ LET c0 == Client(co, fail)
           c1 == IF connection_attempts = "lt1000" THEN setup(c0, FALSE, lo)
                                                   ELSE c0
           \* unqueue_and_display enters its loop
           loop == c1.exc = "none" /\ c1.running /\ c1.ws # "None"
       IN /\ Apply(c1)
          /\ connection_attempts' \in
                IF c1.exc = "none" /\ connection_attempts = "lt1000"
                THEN {"lt1000", "ge1000"} ELSE {connection_attempts}
          /\ fgpc' = IF loop THEN "drain" ELSE "idle"
          /\ tick_start' = IF loop THEN [queue |-> queue, ws |-> ws] ELSE NoTick
    /\ UNCHANGED << bgpc, nrecv, wire >>
    /\ UNCHANGED << plugin, launcher, commands >>

\* One turn of `while self.unqueue(0)` in unqueue_and_display; tick returns
\* when unqueue returns False.
DrainStep(ho) ==
    /\ fgpc = "drain"
    /\ LET c1 == unqueue(Client("ok", 0), TRUE, ho)
       IN /\ Apply(c1)
          /\ IF c1.exc = "none" /\ c1.ret
             THEN /\ fgpc' = "drain"
                  /\ UNCHANGED tick_start
             ELSE /\ fgpc' = "idle"
                  /\ tick_start' = NoTick
    /\ UNCHANGED << connection_attempts, bgpc, nrecv, wire >>
    /\ UNCHANGED << plugin, launcher, commands >>

\* unqueue(timeout) with timeout > 0 (complete_func, open_decl_for_inspector_symbol)
Unqueue(ho) ==
    /\ fgpc = "idle"
    /\ LET c1 == unqueue(Client("ok", 0), FALSE, ho)
       IN Apply(c1)
    /\ UNCHANGED << connection_attempts, fgpc, bgpc, nrecv, wire, tick_start >>
    /\ UNCHANGED << plugin, launcher, commands >>

\* setup(quiet, bootstrap_server) called by itself (client_for, vim_enter)
Setup(bootstrap_server, co, fail, lo) ==
    /\ fgpc = "idle"
    /\ LET c1 == setup(Client(co, fail), bootstrap_server, lo)
       IN Apply(c1)
    /\ UNCHANGED << connection_attempts, fgpc, bgpc, nrecv, wire, tick_start >>
    /\ UNCHANGED << plugin, launcher, commands >>

\* A command that sends one request (type_check, complete, inspect_type, ...);
\* with options it first stores them under the current call_id
\* (symbol_by_name, usages, doc_browse, ...).
SendRequest(options, fail) ==
    /\ fgpc = "idle"
    /\ LET c0 == Client("ok", fail)
           c1 == IF options
                 THEN [c0 EXCEPT !.call_options = @ \cup {c0.call_id}] ELSE c0
           c2 == send_request(c1, "Req")
       IN Apply(c2)
    /\ UNCHANGED << connection_attempts, fgpc, bgpc, nrecv, wire, tick_start >>
    /\ UNCHANGED << plugin, launcher, commands >>

\* teardown() from the foreground (Ensime.teardown)
Teardown ==
    /\ fgpc = "idle"
    /\ LET c1 == teardown(Client("ok", 0))
       IN Apply(c1)
    /\ UNCHANGED << connection_attempts, fgpc, bgpc, nrecv, wire, tick_start >>
    /\ UNCHANGED << plugin, launcher, commands >>

\* do_toggle_teardown
ToggleTeardown ==
    /\ fgpc = "idle"
    /\ toggle_teardown' = ~toggle_teardown
    /\ UNCHANGED << running, ws, ensime, call_id, call_options,
                    number_try_connection, connection_attempts, queue, fgpc,
                    bgpc, pending_connect, stale_gets, server, installed,
                    nrecv, frames, returned, events, warnings, stops,
                    connects, escaped, send_failed, wire, tick_start >>
    /\ UNCHANGED << plugin, launcher, commands >>

\* ------------------------------------------------- background actions ----
\* run_queuer up to run_until_complete: ws_loop and queue exist
RunQueuer ==
    /\ bgpc = "init"
    /\ bgpc' = "head"
    /\ UNCHANGED << running, ws, ensime, call_id, call_options,
                    number_try_connection, connection_attempts,
                    toggle_teardown, queue, fgpc, pending_connect, stale_gets,
                    server, installed, nrecv, frames, returned, events,
                    warnings, stops, connects, escaped, send_failed, wire, tick_start >>
    /\ UNCHANGED << plugin, launcher, commands >>

\* queue_poll at `while self.running`: leaves the loop (run_queuer closes
\* ws_loop), waits in ws.recv(), or sleeps and comes back here.
QueuePoll ==
    /\ bgpc = "head"
    /\ ~running \/ ws # "None"
    /\ bgpc' = IF ~running THEN "done" ELSE "recv"
    /\ UNCHANGED << running, ws, ensime, call_id, call_options,
                    number_try_connection, connection_attempts,
                    toggle_teardown, queue, fgpc, pending_connect, stale_gets,
                    server, installed, nrecv, frames, returned, events,
                    warnings, stops, connects, escaped, send_failed, wire, tick_start >>
    /\ UNCHANGED << plugin, launcher, commands >>

\* put_nowait of a asyncio.LifoQueue: the newest frame is taken first
put_nowait_lifo(q, result) == << result >> \o q

\* asyncio.Queue.put_nowait: the queue is first in, first out
put_nowait(q, result) == Append(q, result)

\* ws.recv() returns a frame, the nrecv+1-th of the session:
\* self.queue.put_nowait(result)
Recv(kind) ==
    /\ bgpc = "recv"
    /\ server = "ready"
    /\ nrecv < MaxMsgs
    /\ nrecv' = nrecv + 1
    /\ LET result == [id |-> nrecv + 1, kind |-> kind]
       IN /\ wire' = Append(wire, result)
          /\ queue' = put_nowait(queue, result)
    /\ bgpc' = "head"
    /\ UNCHANGED << running, ws, ensime, call_id, call_options,
                    number_try_connection, connection_attempts,
                    toggle_teardown, fgpc, pending_connect, stale_gets,
                    server, installed, frames, returned, events,
                    warnings, stops, connects, escaped, send_failed, tick_start >>
    /\ UNCHANGED << plugin, launcher, commands >>

\* logger_and_close that only drops the socket: no teardown, no warning
logger_and_close_drops_ws(c) ==
    IF c.running /\ c.number_try_connection = 0
    THEN [c EXCEPT !.ws = "None"]
    ELSE c

\* logger_and_close(msg), the handler of queue_poll's catch
logger_and_close(c) ==
    IF c.running /\ c.number_try_connection = 0
    THEN [_display_ws_warning(teardown(c)) EXCEPT !.ws = "None"]
    ELSE c

\* ws.recv() raises
RecvFail ==
    /\ bgpc = "recv"
    /\ Apply(logger_and_close(Client("ok", 0)))
    /\ bgpc' = "head"
    /\ UNCHANGED << connection_attempts, fgpc, nrecv, wire, tick_start >>
    /\ UNCHANGED << plugin, launcher, commands >>

\* A queue.get() whose hand-off timed out runs on the loop before its
\* cancellation: it takes the head of the queue and nobody reads its result.
StaleGetTakes ==
    /\ stale_gets > 0
    /\ bgpc \in {"head", "recv"}
    /\ queue # << >>
    /\ stale_gets' = stale_gets - 1
    /\ queue' = Tail(queue)
    /\ events' = Append(events, [id |-> Head(queue).id, out |-> "lost"])
    /\ UNCHANGED << running, ws, ensime, call_id, call_options,
                    number_try_connection, connection_attempts,
                    toggle_teardown, fgpc, bgpc, pending_connect,
                    server, installed, nrecv, frames, returned,
                    warnings, stops, connects, escaped, send_failed, wire, tick_start >>
    /\ UNCHANGED << plugin, launcher, commands >>

\* The cancellation reaches the waiting queue.get() first.
StaleGetCancelled ==
    /\ stale_gets > 0
    /\ bgpc \in {"head", "recv"}
    /\ stale_gets' = stale_gets - 1
    /\ UNCHANGED << running, ws, ensime, call_id, call_options,
                    number_try_connection, connection_attempts,
                    toggle_teardown, queue, fgpc, bgpc, pending_connect,
                    server, installed, nrecv, frames, returned, events,
                    warnings, stops, connects, escaped, send_failed, wire, tick_start >>
    /\ UNCHANGED << plugin, launcher, commands >>

\* The connect() coroutine whose hand-off timed out ends: with a socket
\* (self.ws = await connect(...)) or with an error nobody reads.
LateConnect(ok) ==
    /\ pending_connect
    /\ bgpc \in {"head", "recv"}
    /\ ok => server = "ready"
    /\ pending_connect' = FALSE
    /\ ws' = IF ok THEN "sock" ELSE ws
    /\ UNCHANGED << running, ensime, call_id, call_options,
                    number_try_connection, connection_attempts,
                    toggle_teardown, queue, fgpc, bgpc, stale_gets,
                    server, installed, nrecv, frames, returned, events,
                    warnings, stops, connects, escaped, send_failed, wire, tick_start >>
    /\ UNCHANGED << plugin, launcher, commands >>

\* -------------------------------------------------------- environment ----
\* The launched server writes its port file and listens.
ServerReady ==
    /\ server = "starting"
    /\ server' = "ready"
    /\ UNCHANGED << running, ws, ensime, call_id, call_options,
                    number_try_connection, connection_attempts,
                    toggle_teardown, queue, fgpc, bgpc, pending_connect,
                    stale_gets, installed, nrecv, frames, returned, events,
                    warnings, stops, connects, escaped, send_failed, wire, tick_start >>
    /\ UNCHANGED << plugin, launcher, commands >>

\* The foreground calls, by who makes them
TickCall ==
    \E co \in Connects(Client("ok", 0)) :
      \E fail \in Fails(Client("ok", 0), co),
         lo \in Launches(Client("ok", 0), FALSE) : Tick(co, fail, lo)
DrainCall == \E ho \in Gets(Client("ok", 0)) : DrainStep(ho)
UnqueueCall == \E ho \in Gets(Client("ok", 0)) : Unqueue(ho)
SetupCall ==
    \E b \in BOOLEAN, co \in Connects(Client("ok", 0)) :
      \E fail \in Fails(Client("ok", 0), co),
         lo \in Launches(Client("ok", 0), b) : Setup(b, co, fail, lo)
SendRequestCall ==
    \E o \in BOOLEAN, fail \in Fails(Client("ok", 0), "error") :
      SendRequest(o, fail)
RecvFrame == \E k \in Kinds : Recv(k)
RecvEvent == \E k \in EventKinds : Recv(k)
LateConnectEnds == \E ok \in BOOLEAN : LateConnect(ok)

\* The session: every call of the foreground, the poller, the server.
Next ==
    \/ TickCall
    \/ DrainCall
    \/ UnqueueCall
    \/ SetupCall
    \/ SendRequestCall
    \/ Teardown
    \/ RunQueuer
    \/ QueuePoll
    \/ RecvFrame
    \/ RecvFail
    \/ StaleGetTakes
    \/ StaleGetCancelled
    \/ LateConnectEnds
    \/ ServerReady

Spec == Init /\ [][Next]_vars

\* The session seen from the requests it sends: the server sends no frame.
NextCalls ==
    \/ TickCall
    \/ DrainCall
    \/ UnqueueCall
    \/ SetupCall
    \/ SendRequestCall
    \/ Teardown
    \/ ToggleTeardown
    \/ RunQueuer
    \/ QueuePoll
    \/ RecvFail
    \/ StaleGetCancelled
    \/ LateConnectEnds
    \/ ServerReady

SpecCalls == Init /\ [][NextCalls]_vars

\* What the scheduling of the poller thread guarantees: the thread started
\* by __init__ runs, a turn of queue_poll's loop that can be taken is taken
\* (asyncio.sleep returns), and ws.recv() raises once the server process
\* has been stopped.  Nothing guarantees that a socket to a live server
\* fails or delivers a frame.
PollerFairness ==
    /\ WF_vars(RunQueuer)
    /\ WF_vars(QueuePoll)
    /\ WF_vars(RecvFail /\ server = "stopped")

SpecPoller == Init /\ [][NextCalls]_vars /\ PollerFairness

\* The session seen from the frames it receives: the editor issues no
\* command, so the only request is connect_ensime_server's.
NextQueue ==
    \/ TickCall
    \/ DrainCall
    \/ UnqueueCall
    \/ SetupCall
    \/ Teardown
    \/ RunQueuer
    \/ QueuePoll
    \/ RecvFrame
    \/ RecvFail
    \/ StaleGetTakes
    \/ StaleGetCancelled
    \/ LateConnectEnds
    \/ ServerReady

SpecQueue == Init /\ [][NextQueue]_vars

\* The session when the server sends replies and unsolicited events.
NextEvents ==
    \/ TickCall
    \/ DrainCall
    \/ UnqueueCall
    \/ SetupCall
    \/ Teardown
    \/ RunQueuer
    \/ QueuePoll
    \/ RecvEvent
    \/ RecvFail
    \/ StaleGetTakes
    \/ StaleGetCancelled
    \/ LateConnectEnds
    \/ ServerReady

SpecEvents == Init /\ [][NextEvents]_vars
\* ------------------------------------------------- the plugin: Ensime ----
\* The client EnsimeClient.__init__ leaves: no socket, no process handle,
\* the poller thread started but not yet run.
FreshClient(inst) ==
    [ running |-> TRUE, ws |-> "None", ensime |-> "None", call_id |-> 0,
      call_options |-> {}, number_try_connection |-> InitialTryConnection,
      toggle_teardown |-> TRUE, queue |-> << >>, ws_loop |-> "None",
      pending_connect |-> FALSE, stale_gets |-> 0, server |-> "down",
      installed |-> inst, frames |-> << >>, returned |-> << >>,
      events |-> << >>, warnings |-> 0, stops |-> 0, connects |-> 0,
      send_failed |-> FALSE,
      exc |-> "none", ret |-> FALSE, co |-> "error", fail |-> 0,
      msg |-> "none" ]

\* client_for that keeps the new client whatever its setup returned
client_for_keeps_any(config_path, bootstrap_server, create_client, inst, lo) ==
    LET abs_path == abspath(config_path)
    IN IF clients[abs_path] # 0
       THEN [clients |-> clients, sessions |-> sessions,
             client |-> clients[abs_path]]
       ELSE IF create_client
       THEN LET c1 == setup(FreshClient(inst), bootstrap_server, lo)
                id == Len(sessions) + 1
            IN [clients  |-> [clients EXCEPT ![abs_path] = id],
                sessions |-> Append(sessions, [c |-> c1, path |-> abs_path,
                                               setup_ret |-> c1.ret]),
                client   |-> id]
       ELSE [clients |-> clients, sessions |-> sessions, client |-> 0]

\* client_for(config_path, quiet, bootstrap_server, create_client): the
\* registry and the clients after the call, and the client returned (its
\* place in sessions, 0 for None).  A new client is put in the registry only
\* if its setup returned True.
client_for(config_path, bootstrap_server, create_client, inst, lo) ==
    LET abs_path == abspath(config_path)
    IN IF clients[abs_path] # 0
       THEN [clients |-> clients, sessions |-> sessions,
             client |-> clients[abs_path]]
       ELSE IF create_client
       THEN LET c1 == setup(FreshClient(inst), bootstrap_server, lo)
                id == Len(sessions) + 1
            IN [clients  |-> IF c1.exc = "none" /\ c1.ret
                             THEN [clients EXCEPT ![abs_path] = id]
                             ELSE clients,
                sessions |-> Append(sessions, [c |-> c1, path |-> abs_path,
                                               setup_ret |-> c1.ret]),
                client   |-> id]
       ELSE [clients |-> clients, sessions |-> sessions, client |-> 0]

\* The fields of the single client of the other specifications stay put.
client_vars ==
    << running, ws, ensime, call_id, call_options, number_try_connection,
       connection_attempts, toggle_teardown, queue, fgpc, bgpc,
       pending_connect, stale_gets, server, installed, nrecv, frames,
       returned, events, warnings, stops, connects, escaped, send_failed,
       wire, tick_start, files, strategy, spawned, shown, launched,
       commands >>

\* The frames client i has received so far
Received(c) == Len(c.events) + Len(c.queue)

\* What the clients of one run have used of the bounds, together
Measure(c) ==
    [ calls |-> Len(c.returned), msgs |-> Received(c),
      warnings |-> c.warnings, stops |-> c.stops, stale |-> c.stale_gets ]
RECURSIVE Total(_, _)
Total(ss, f) ==
    IF ss = << >> THEN 0 ELSE Measure(Head(ss).c)[f] + Total(Tail(ss), f)
SessionsBounded(ss) ==
    /\ Total(ss, "calls") <= MaxCalls
    /\ Total(ss, "msgs") <= MaxMsgs
    /\ Total(ss, "warnings") <= MaxWarn
    /\ Total(ss, "stops") <= MaxStops
    /\ Total(ss, "stale") <= MaxStale

\* current_client / client_for from a command or an autocommand
ClientFor(config_path, bootstrap_server, create_client, inst, lo) ==
    /\ LET r == client_for(config_path, bootstrap_server, create_client,
                           inst, lo)
       IN /\ SessionsBounded(r.sessions)
          /\ clients' = r.clients
          /\ sessions' = r.sessions
    /\ UNCHANGED client_vars

\* call_options as one dict of the class, shared by every client
store_shares_call_options(ss, i, c1) ==
    [j \in DOMAIN ss |->
       IF j = i THEN [ss[j] EXCEPT !.c = c1]
       ELSE [ss[j] EXCEPT !.c.call_options = c1.call_options]]

\* The attributes of client i are its own: self.x = ... in __init__
store(ss, i, c1) == [ss EXCEPT ![i].c = c1]

\* Client i as its next call finds it, with what its hand-offs will do
Session(i, co) ==
    [sessions[i].c EXCEPT !.exc = "none", !.ret = FALSE, !.co = co, !.fail = 0,
                          !.msg = "none"]

\* unqueue_and_display's loop: unqueue(0) until it returns False
RECURSIVE drain(_)
drain(c) ==
    LET c1 == unqueue(c, TRUE, "got")
    IN IF c1.exc = "none" /\ c1.ret THEN drain(c1) ELSE c1

\* tick(filename) on client i, as one step
SessionTick(i, co, lo) ==
    /\ LET c1 == setup(Session(i, co), FALSE, lo)
           c2 == IF c1.exc = "none" /\ c1.running /\ c1.ws # "None"
                 THEN drain(c1) ELSE c1
       IN /\ SessionsBounded(store(sessions, i, c2))
          /\ sessions' = store(sessions, i, c2)
    /\ UNCHANGED << clients, client_vars >>

\* A command on client i that stores options and sends a request
SessionSendRequest(i) ==
    /\ LET c0 == Session(i, "error")
           c1 == send_request([c0 EXCEPT !.call_options = @ \cup {c0.call_id}],
                              "Req")
       IN /\ SessionsBounded(store(sessions, i, c1))
          /\ sessions' = store(sessions, i, c1)
    /\ UNCHANGED << clients, client_vars >>

\* unqueue(timeout) on client i
SessionUnqueue(i) ==
    /\ sessions[i].c.queue # << >>
    /\ sessions' = store(sessions, i, unqueue(Session(i, "error"), FALSE, "got"))
    /\ UNCHANGED << clients, client_vars >>

\* teardown() of client i
SessionTeardown(i) ==
    /\ sessions[i].c.running
    /\ LET c1 == teardown(Session(i, "error"))
       IN /\ SessionsBounded(store(sessions, i, c1))
          /\ sessions' = store(sessions, i, c1)
    /\ UNCHANGED << clients, client_vars >>

\* The poller thread of client i: run_queuer makes its loop and queue
SessionRunQueuer(i) ==
    /\ sessions[i].c.ws_loop = "None"
    /\ sessions' = store(sessions, i, [sessions[i].c EXCEPT !.ws_loop = "open"])
    /\ UNCHANGED << clients, client_vars >>

\* The poller of client i receives a frame, or its ws.recv() raises
SessionRecv(i, kind) ==
    /\ LET c == sessions[i].c
       IN /\ c.running /\ c.ws # "None" /\ c.ws_loop = "open"
          /\ c.server = "ready"
          /\ Total(sessions, "msgs") < MaxMsgs
          /\ sessions' = store(sessions, i,
                [c EXCEPT !.queue = put_nowait(@, [id   |-> Received(c) + 1,
                                                   kind |-> kind])])
    /\ UNCHANGED << clients, client_vars >>

SessionRecvFail(i) ==
    /\ LET c == sessions[i].c
       IN /\ c.running /\ c.ws # "None" /\ c.ws_loop = "open"
          /\ SessionsBounded(store(sessions, i, logger_and_close(c)))
          /\ sessions' = store(sessions, i, logger_and_close(c))
    /\ UNCHANGED << clients, client_vars >>

\* The server launched for client i is ready
SessionServerReady(i) ==
    /\ sessions[i].c.server = "starting"
    /\ sessions' = store(sessions, i, [sessions[i].c EXCEPT !.server = "ready"])
    /\ UNCHANGED << clients, client_vars >>

\* The installation and the launch matter only to a call that creates.
ClientForCall ==
    \E config_path \in ConfigPaths, b \in BOOLEAN, create \in BOOLEAN :
      /\ Len(sessions) < MaxClients \/ clients[abspath(config_path)] # 0
                                    \/ ~create
      /\ \E inst \in IF create /\ clients[abspath(config_path)] = 0
                   THEN BOOLEAN ELSE {FALSE} :
        \E lo \in IF create /\ clients[abspath(config_path)] = 0
                   THEN Launches(FreshClient(inst), b) ELSE {"None"} :
          ClientFor(config_path, b, create, inst, lo)

\* The first event of a project: no client was made for its path yet
FirstClientFor ==
    \E config_path \in ConfigPaths, b \in BOOLEAN, inst \in BOOLEAN :
      /\ \A i \in 1..Len(sessions) : sessions[i].path # abspath(config_path)
      /\ \E lo \in Launches(FreshClient(inst), b) :
           ClientFor(config_path, b, TRUE, inst, lo)
\* The clients the plugin still reaches: those in Ensime.clients
Cached == {i \in 1..Len(sessions) : clients[sessions[i].path] = i}

SessionTickCall ==
    \E i \in Cached :
      \E co \in Connects(sessions[i].c) \ {"timeout"} :
        \E lo \in Launches(sessions[i].c, FALSE) :
          SessionTick(i, co, lo)
SessionSendRequestCall == \E i \in Cached : SessionSendRequest(i)
SessionUnqueueCall == \E i \in Cached : SessionUnqueue(i)
SessionTeardownCall == \E i \in Cached : SessionTeardown(i)
SessionRunQueuerStep == \E i \in Cached : SessionRunQueuer(i)
SessionRecvFrame == \E i \in Cached : SessionRecv(i, "valid")
SessionRecvFails == \E i \in Cached : SessionRecvFail(i)
SessionServerBecomesReady == \E i \in Cached : SessionServerReady(i)

\* The plugin with the clients of several projects
NextSessions ==
    \/ FirstClientFor
    \/ SessionTickCall
    \/ SessionSendRequestCall
    \/ SessionUnqueueCall
    \/ SessionTeardownCall
    \/ SessionRunQueuerStep
    \/ SessionRecvFrame
    \/ SessionRecvFails
    \/ SessionServerBecomesReady

SpecSessions == Init /\ [][NextSessions]_vars

\* The registry: client_for called again and again, for any path
NextRegistry ==
    \/ ClientForCall
    \/ SessionRunQueuerStep
    \/ SessionServerBecomesReady
    \/ SessionTeardownCall

SpecRegistry == Init /\ [][NextRegistry]_vars

\* ------------------------------------------- the client's launcher ----
\* create_client: ProjectConfig(config_path) and EnsimeLauncher(vim, config),
\* with the disk as it is then
NewLauncher(f) ==
    /\ strategy = "None"
    /\ fgpc = "idle" /\ ensime = "None"
    /\ files' = f
    /\ strategy' = EnsimeLauncher(f)
    /\ installed' = isinstalled(EnsimeLauncher(f), f)
    /\ UNCHANGED << running, ws, call_id, call_options, ensime,
                    number_try_connection, connection_attempts,
                    toggle_teardown, queue, fgpc, bgpc, pending_connect,
                    stale_gets, server, nrecv, frames, returned, events,
                    warnings, stops, connects, escaped, send_failed, wire,
                    tick_start, spawned, shown, launched >>
    /\ UNCHANGED << plugin, commands >>

\* Somebody else changes the disk: a jar is removed, java is installed, ...
FilesChange(f) ==
    /\ strategy # "None"
    /\ f # files
    /\ files' = f
    /\ installed' = isinstalled(strategy, f)
    /\ UNCHANGED << running, ws, call_id, call_options, ensime,
                    number_try_connection, connection_attempts,
                    toggle_teardown, queue, fgpc, bgpc, pending_connect,
                    stale_gets, server, nrecv, frames, returned, events,
                    warnings, stops, connects, escaped, send_failed, wire,
                    tick_start, strategy, spawned, shown, launched >>
    /\ UNCHANGED << plugin, commands >>

\* setup reaches self.launcher.launch()
Launching(c, bootstrap_server) ==
    c.running /\ c.ensime = "None" /\ (c.installed \/ bootstrap_server)

\* setup(quiet, bootstrap_server) with the launcher looked into: the outcome
\* of launch() is what the strategy and the disk make it.
LauncherSetup(bootstrap_server, co, sbt) ==
    /\ fgpc = "idle"
    /\ strategy # "None"
    /\ LET c0 == Client(co, 0)
           go == Launching(c0, bootstrap_server)
           r  == EnsimeLauncher_launch(strategy, files, sbt)
           c1 == setup(c0, bootstrap_server, IF go THEN r.out ELSE "None")
       IN /\ Apply([c1 EXCEPT !.installed =
                       isinstalled(strategy, IF go THEN r.files ELSE files)])
          /\ files' = IF go THEN r.files ELSE files
          /\ spawned' = IF go THEN spawned + r.spawned ELSE spawned
          /\ launched' = IF go THEN r.out ELSE launched
          /\ shown' = IF c1.msg = "none" THEN shown ELSE shown \cup {c1.msg}
    /\ UNCHANGED << connection_attempts, fgpc, bgpc, nrecv, wire, tick_start,
                    strategy >>
    /\ UNCHANGED << plugin, commands >>

NewLauncherCall == \E f \in Files : NewLauncher(f)
FilesChangeCall == \E f \in Files : FilesChange(f)
LauncherSetupCall ==
    \E b \in BOOLEAN, co \in Connects(Client("ok", 0)) :
      \E sbt \in IF Launching(Client("ok", 0), b)
                     /\ strategy = "SbtBootstrap" /\ ~installed
                  THEN SbtOutcomes ELSE {"ok"} :
        LauncherSetup(b, co, sbt)

\* The client from the side of its launcher
NextLaunch ==
    \/ NewLauncherCall
    \/ FilesChangeCall
    \/ LauncherSetupCall
    \/ Teardown
    \/ RunQueuer
    \/ ServerReady

SpecLaunch == Init /\ [][NextLaunch]_vars

\* ------------------------------------------- the client's commands ----
\* The handler and completion fields and their history
typecheck_vars == << currently_buffering_typechecks, buffered_notes,
                     displayed, notes_received >>
completion_vars == << suggestions, completion_started, completions >>

\* The client's record with the values of call_options beside its keys, the
\* completion fields, and what the command returns
CommandClient(fail) ==
    LET c == Client("ok", fail)
    IN [x \in DOMAIN c \cup {"call_option_values", "suggestions",
                             "completion_started", "result"} |->
          CASE x = "call_option_values" -> call_option_values
            [] x = "suggestions"        -> suggestions
            [] x = "completion_started" -> completion_started
            [] x = "result"             -> "none"
            [] OTHER                    -> c[x]]

ApplyCommand(c) ==
    /\ Apply(c)
    /\ call_option_values' = c.call_option_values

\* self.call_options[key] = opts
setitem(c, key, opts) ==
    [c EXCEPT !.call_options = @ \cup {key},
              !.call_option_values =
                 [k \in DOMAIN @ \cup {key} |-> IF k = key THEN opts ELSE @[k]]]

\* symbol_by_name(args)
symbol_by_name(c, args) ==
    IF args = << >>
    THEN [c EXCEPT !.msg = "Must provide a fully-qualifed symbol name"]
    ELSE LET c1 == setitem(c, c.call_id, [split |-> TRUE, vert |-> TRUE,
                                           open_definition |-> TRUE])
         IN send_request(c1, "SymbolByNameReq")

\* symbol_at_point_req(open_definition, display)
symbol_at_point_req(c, open_definition, display) ==
    LET has  == c.call_id \in c.call_options
        opts == c.call_option_values[c.call_id]
        new  == IF has
                THEN [n \in DOMAIN opts \cup {"open_definition", "display"} |->
                        CASE n = "open_definition" -> open_definition
                          [] n = "display"         -> display
                          [] OTHER                 -> opts[n]]
                ELSE [open_definition |-> open_definition,
                      display |-> display]
    IN send_request(setitem(c, c.call_id, new), "SymbolAtPointReq")

\* open_declaration(args)
open_declaration(c) == symbol_at_point_req(c, TRUE, FALSE)

\* open_declaration_split(args)
open_declaration_split(c, args) ==
    LET opts == IF \E i \in 1..Len(args) : args[i] = "v"
                THEN [split |-> TRUE, vert |-> TRUE]
                ELSE [split |-> TRUE]
    IN symbol_at_point_req(setitem(c, c.call_id, opts), TRUE, FALSE)

\* symbol(args)
symbol(c) == symbol_at_point_req(c, FALSE, TRUE)

\* usages that asks first and stores the options afterwards
usages_registers_late(c) ==
    LET c1 == send_request(c, "UsesOfSymbolAtPointReq")
    IN setitem(c1, c1.call_id,
               [word_under_cursor |-> "word",
                false_resp_msg |-> "Not a valid symbol under the cursor"])

\* usages(), with send_at_point("UsesOfSymbol", row, col)
usages(c) ==
    LET c1 == setitem(c, c.call_id,
                      [word_under_cursor |-> "word",
                       false_resp_msg |-> "Not a valid symbol under the cursor"])
    IN send_request(c1, "UsesOfSymbolAtPointReq")

\* doc_browse(args), with send_at_position("DocUri", False, "point")
doc_browse(c) ==
    send_request(setitem(c, c.call_id, [browse |-> TRUE]), "DocUriAtPointReq")

\* doc_uri(args): the same request, no options
doc_uri(c) == send_request(c, "DocUriAtPointReq")

\* A command of the client, called from the foreground
Command(c) ==
    /\ fgpc = "idle"
    /\ ApplyCommand(c)
    /\ UNCHANGED << connection_attempts, fgpc, bgpc, nrecv, wire, tick_start >>
    /\ UNCHANGED << plugin, launcher, typecheck_vars, completion_vars,
                    ui_events >>

SymbolByName ==
    \E args \in { << >>, << "a.B" >>, << "a.B", "m" >> },
       fail \in Fails(Client("ok", 0), "error") :
        Command(symbol_by_name(CommandClient(fail), args))
OpenDeclaration ==
    \E fail \in Fails(Client("ok", 0), "error") :
        Command(open_declaration(CommandClient(fail)))
OpenDeclarationSplit ==
    \E args \in { << >>, << "v" >> },
       fail \in Fails(Client("ok", 0), "error") :
        Command(open_declaration_split(CommandClient(fail), args))
Symbol ==
    \E fail \in Fails(Client("ok", 0), "error") :
        Command(symbol(CommandClient(fail)))
Usages ==
    \E fail \in Fails(Client("ok", 0), "error") :
        Command(usages(CommandClient(fail)))
DocBrowse ==
    \E fail \in Fails(Client("ok", 0), "error") :
        Command(doc_browse(CommandClient(fail)))
DocUri ==
    \E fail \in Fails(Client("ok", 0), "error") :
        Command(doc_uri(CommandClient(fail)))

\* The client and its commands
NextCommands ==
    \/ SetupCall
    \/ RunQueuer
    \/ ServerReady
    \/ SymbolByName
    \/ OpenDeclaration
    \/ OpenDeclarationSplit
    \/ Symbol
    \/ Usages
    \/ DocBrowse
    \/ DocUri

SpecCommands == Init /\ [][NextCommands]_vars

\* ------------------------------------------------- TypecheckHandler ----
\* The fields of the client alone, without plugin, launcher and commands
client_fields ==
    << running, ws, ensime, call_id, call_options, number_try_connection,
       connection_attempts, toggle_teardown, queue, fgpc, bgpc,
       pending_connect, stale_gets, server, installed, nrecv, frames,
       returned, events, warnings, stops, connects, escaped, send_failed,
       wire, tick_start >>

\* The handler's fields as one record, with what the editor was given
Handler ==
    [ currently_buffering_typechecks |-> currently_buffering_typechecks,
      buffered_notes |-> buffered_notes,
      displayed |-> displayed ]

ApplyHandler(h) ==
    /\ Len(h.displayed) <= MaxDisplays
    /\ currently_buffering_typechecks' = h.currently_buffering_typechecks
    /\ buffered_notes' = h.buffered_notes
    /\ displayed' = h.displayed

\* self.editor.display_notes(notes)
display_notes(h, notes) == [h EXCEPT !.displayed = Append(@, notes)]

\* buffer_typechecks that appends without looking at the flag
buffer_typechecks_unguarded(h, notes) ==
    [h EXCEPT !.buffered_notes = @ \o notes]

\* buffer_typechecks(call_id, payload); notes is payload['notes']
buffer_typechecks(h, notes) ==
    IF h.currently_buffering_typechecks
    THEN [h EXCEPT !.buffered_notes = @ \o notes]
    ELSE h

\* buffer_typechecks_and_display(call_id, payload)
buffer_typechecks_and_display(h, notes) ==
    LET h1 == buffer_typechecks(h, notes)
    IN display_notes(h1, h1.buffered_notes)

\* start_typechecking that keeps the notes buffered so far
start_typechecking_keeps_notes(h) ==
    [h EXCEPT !.currently_buffering_typechecks = TRUE]

\* start_typechecking()
start_typechecking(h) ==
    [h EXCEPT !.currently_buffering_typechecks = TRUE,
              !.buffered_notes = << >>]

\* handle_typecheck_complete(call_id, payload)
handle_typecheck_complete(h) ==
    IF ~h.currently_buffering_typechecks
    THEN h
    ELSE [display_notes(h, h.buffered_notes) EXCEPT
             !.currently_buffering_typechecks = FALSE,
             !.buffered_notes = << >>]

\* type_check(filename): clean_errors and the TypecheckFilesReq
type_check(c) == send_request(c, "TypecheckFilesReq")

\* The notes of one payload
Payloads == { << >>, << "a" >>, << "b" >>, << "a", "b" >> }

\* type_check_cmd(args): start_typechecking, type_check(""), the message
TypeCheckCmd ==
    /\ fgpc = "idle"
    /\ \E fail \in Fails(Client("ok", 0), "error") :
          Apply(type_check(Client("ok", fail)))
    /\ ApplyHandler(start_typechecking(Handler))
    /\ notes_received' = << >>
    /\ UNCHANGED << connection_attempts, fgpc, bgpc, nrecv, wire, tick_start >>
    /\ UNCHANGED << plugin, launcher, call_option_values, completion_vars,
                    ui_events >>

\* A handler of the typecheck mixin is called with a payload's notes
BufferTypechecks ==
    /\ \E notes \in Payloads :
          /\ Len(notes_received) + Len(notes) <= MaxNotes
          /\ ApplyHandler(buffer_typechecks(Handler, notes))
          /\ notes_received' = notes_received \o notes
    /\ UNCHANGED << client_fields, plugin, launcher, call_option_values,
                    completion_vars, ui_events >>

BufferTypechecksAndDisplay ==
    /\ \E notes \in Payloads :
          /\ Len(notes_received) + Len(notes) <= MaxNotes
          /\ ApplyHandler(buffer_typechecks_and_display(Handler, notes))
          /\ notes_received' = notes_received \o notes
    /\ UNCHANGED << client_fields, plugin, launcher, call_option_values,
                    completion_vars, ui_events >>

HandleTypecheckComplete ==
    /\ ApplyHandler(handle_typecheck_complete(Handler))
    /\ UNCHANGED << client_fields, plugin, launcher, call_option_values,
                    completion_vars, ui_events, notes_received >>

\* The client and its typecheck handlers
NextTypecheck ==
    \/ TypeCheckCmd
    \/ BufferTypechecks
    \/ BufferTypechecksAndDisplay
    \/ HandleTypecheckComplete

SpecTypecheck == Init /\ [][NextTypecheck]_vars

\* ------------------------------------------ the plugin's UI events ----
\* tick_clients(): the loop over self.clients is commented out, the body
\* is `pass`
tick_clients(ss) == ss

\* vim_enter(filename) of a client: setup(True, False)
vim_enter(c, lo) == setup(c, FALSE, lo)

\* A handler wrapped in execute_with_client() that calls tick_clients():
\* current_client (create_client=True, bootstrap_server=False), then the
\* handler if there is a client and it is running.
CursorEvent(config_path, inst, lo) ==
    /\ ui_events < MaxUi
    /\ \E r \in {client_for(config_path, FALSE, TRUE, inst, lo)} :
         \E ss \in {IF r.client # 0 /\ r.sessions[r.client].c.running
                    THEN tick_clients(r.sessions) ELSE r.sessions} :
           /\ Len(ss) <= MaxClients
           /\ SessionsBounded(ss)
           /\ clients' = r.clients
           /\ sessions' = ss
    /\ ui_events' = ui_events + 1
    /\ UNCHANGED << client_fields, launcher, call_option_values,
                    typecheck_vars, completion_vars >>

\* fun_en_tick(timer): tick_clients() without a current client
FunEnTick ==
    /\ ui_events < MaxUi
    /\ sessions' = tick_clients(sessions)
    /\ ui_events' = ui_events + 1
    /\ UNCHANGED << clients, client_fields, launcher, call_option_values,
                    typecheck_vars, completion_vars >>

\* au_vim_enter(filename), wrapped in execute_with_client(quiet=True)
AuVimEnter(config_path, inst, lo, co, lo2) ==
    /\ \E r \in {client_for(config_path, FALSE, TRUE, inst, lo)} :
         \E ss \in {IF r.client # 0 /\ r.sessions[r.client].c.running
                    THEN LET c0 == [r.sessions[r.client].c EXCEPT
                                      !.exc = "none", !.ret = FALSE,
                                      !.co = co, !.fail = 0, !.msg = "none"]
                         IN store(r.sessions, r.client, vim_enter(c0, lo2))
                    ELSE r.sessions} :
           /\ Len(ss) <= MaxClients
           /\ SessionsBounded(ss)
           /\ ss # sessions
           /\ clients' = r.clients
           /\ sessions' = ss
    /\ UNCHANGED << client_fields, launcher, commands >>

\* The installation and the launch matter only to an event that creates a
\* client.
\* au_cursor_moved(filename)
AuCursorMoved ==
    \E config_path \in ConfigPaths :
      \E inst \in IF clients[abspath(config_path)] = 0
                  THEN BOOLEAN ELSE {FALSE} :
        \E lo \in IF clients[abspath(config_path)] = 0
                  THEN Launches(FreshClient(inst), FALSE) ELSE {"None"} :
          CursorEvent(config_path, inst, lo)

\* au_cursor_hold(filename)
AuCursorHold ==
    \E config_path \in ConfigPaths :
      \E inst \in IF clients[abspath(config_path)] = 0
                  THEN BOOLEAN ELSE {FALSE} :
        \E lo \in IF clients[abspath(config_path)] = 0
                  THEN Launches(FreshClient(inst), FALSE) ELSE {"None"} :
          CursorEvent(config_path, inst, lo)

AuVimEnterCall ==
    \E config_path \in ConfigPaths :
      \E inst \in IF clients[abspath(config_path)] = 0
                  THEN BOOLEAN ELSE {FALSE} :
        \E lo \in IF clients[abspath(config_path)] = 0
                  THEN Launches(FreshClient(inst), FALSE) ELSE {"None"} :
          \E co \in ConnectOutcomes \ {"timeout"}, lo2 \in {"None", "proc"} :
            AuVimEnter(config_path, inst, lo, co, lo2)

\* The plugin as the editor's events drive it
NextUi ==
    \/ AuCursorMoved
    \/ AuCursorHold
    \/ FunEnTick
    \/ AuVimEnterCall
    \/ SessionRunQueuerStep
    \/ SessionServerBecomesReady
    \/ SessionRecvFrame

SpecUi == Init /\ [][NextUi]_vars

\* ------------------------------------------------------ completion ----
\* The frames a server sends to a client that completes: a CompletionInfoList
\* reply ("completions"), and any other frame whose handler returns
CompletionKinds == {"valid", "completions"}

\* complete(row, col)
complete(c) == send_request(c, "CompletionsReq")

\* ProtocolHandler.handle_incoming_response(call_id, payload), for what the
\* completion reads: the handler of a CompletionInfoList puts the reply's
\* suggestions in self.suggestions; m.id stands for the reply's suggestions.
handle_incoming_response(c, m) ==
    IF m.kind = "completions" THEN [c EXCEPT !.suggestions = << m.id >>]
    ELSE c

\* unqueue(timeout) with what the handler it calls does to the client
unqueue_handled(c, timeout0, ho) ==
    LET c1 == unqueue(c, timeout0, ho)
    IN IF /\ Len(c1.events) > Len(c.events)
          /\ c1.events[Len(c1.events)].out = "dispatched"
       THEN handle_incoming_response(c1, Head(c.queue))
       ELSE c1

\* complete_func(findstart, base); result is what it returns
complete_func(c, findstart, ho) ==
    IF findstart = 1
    THEN LET c1 == complete(c)
         IN [c1 EXCEPT !.completion_started = TRUE, !.result = "startcol"]
    ELSE IF c.completion_started
    THEN LET c1 == unqueue_handled(c, FALSE, ho)
         IN [c1 EXCEPT !.result = IF c1.suggestions = "None" THEN << >>
                                  ELSE c1.suggestions,
                       !.suggestions = "None",
                       !.completion_started = FALSE]
    ELSE [c EXCEPT !.result = << >>]

\* open_decl_for_inspector_symbol(): symbol_by_name([symbol]), unqueue()
open_decl_for_inspector_symbol(c, ho) ==
    unqueue_handled(symbol_by_name(c, << "a.B" >>), FALSE, ho)

\* The fields after a completion or the inspector's command; the run has
\* room for the request of each beside the ConnectionInfoReq.
ApplyCompletion(c) ==
    /\ Len(c.returned) <= MaxCalls + 1
    /\ c.warnings <= MaxWarn
    /\ c.stops <= MaxStops
    /\ c.stale_gets <= MaxStale
    /\ Assign(c)
    /\ call_option_values' = c.call_option_values
    /\ suggestions' = c.suggestions
    /\ completion_started' = c.completion_started

\* fun_en_complete_func: complete_func(findstart, base) on the client
CompleteFunc(findstart, fail, ho) ==
    /\ fgpc = "idle"
    /\ Len(completions) < MaxCompletions
    /\ LET c1 == complete_func(CommandClient(fail), findstart, ho)
       IN /\ ApplyCompletion(c1)
          /\ completions' = Append(completions, [findstart |-> findstart,
                                                 result    |-> c1.result])
    /\ UNCHANGED << connection_attempts, fgpc, bgpc, nrecv, wire, tick_start >>
    /\ UNCHANGED << plugin, launcher, typecheck_vars, ui_events >>

\* fun_en_package_decl: open_decl_for_inspector_symbol() on the client
OpenDeclForInspectorSymbol(fail, ho) ==
    /\ fgpc = "idle"
    /\ ApplyCompletion(open_decl_for_inspector_symbol(CommandClient(fail), ho))
    /\ UNCHANGED << connection_attempts, fgpc, bgpc, nrecv, wire, tick_start >>
    /\ UNCHANGED << plugin, launcher, typecheck_vars, ui_events, completions >>

\* The server answers a CompletionsReq it was sent
RecvCompletions ==
    /\ \E i \in 1..Len(frames) : frames[i].typehint = "CompletionsReq"
    /\ Recv("completions")

\* The server sends something else
RecvOther == Recv("valid")

CompleteFuncCall ==
    \E findstart \in {0, 1}, fail \in Fails(Client("ok", 0), "error") :
      \E ho \in IF findstart = 0 /\ completion_started
                THEN Gets(Client("ok", 0)) ELSE {"timeout"} :
        CompleteFunc(findstart, fail, ho)
OpenDeclForInspectorSymbolCall ==
    \E fail \in Fails(Client("ok", 0), "error"), ho \in Gets(Client("ok", 0)) :
      OpenDeclForInspectorSymbol(fail, ho)

\* The client and its completion
NextComplete ==
    \/ SetupCall
    \/ RunQueuer
    \/ QueuePoll
    \/ ServerReady
    \/ RecvCompletions
    \/ RecvOther
    \/ StaleGetCancelled
    \/ CompleteFuncCall
    \/ OpenDeclForInspectorSymbolCall

SpecComplete == Init /\ [][NextComplete]_vars

\* ------------------------------------------------------------ C1 ----
\* C1: the callIds returned by successive send_request calls on one client
\* are 0, 1, 2, ...: the first is 0 and each is the previous plus one, so
\* they are pairwise distinct and strictly increasing.  The calls include
\* the ConnectionInfoReq that connect_ensime_server sends, and the calls
\* made while the client has no socket or is no longer running.
C1_CallIdsCount ==
    /\ \A i \in 1..Len(returned) : returned[i].ret = i - 1
    /\ call_id = Len(returned)

\* Several calls have returned: the internal ConnectionInfoReq, and at least
\* one made while nothing could be sent.
C1_Witness ==
    /\ Len(returned) >= 2
    /\ \E i \in 1..Len(frames) : frames[i].typehint = "ConnectionInfoReq"
    /\ Len(frames) < Len(returned)

\* ------------------------------------------------------------ C2 ----
\* C2: every request frame handed to the socket carries a callId that no
\* other frame of the client carries, every frame was built by a
\* send_request call, and each send_request call returned the callId of
\* the frame it built; a failed ws.send hand-off changes none of this.
C2_FrameIdsAreTheReturnedIds ==
    /\ \A i, j \in 1..Len(frames) :
          i # j => frames[i].callId # frames[j].callId
    /\ \A i \in 1..Len(frames) :
          \E k \in 1..Len(returned) : returned[k].built = frames[i].callId
    /\ \A k \in 1..Len(returned) : returned[k].built = returned[k].ret

\* The ConnectionInfoReq and a request have been handed to the socket, and
\* a ws.send hand-off has failed.
C2_Witness ==
    /\ Len(frames) >= 2
    /\ \E i \in 1..Len(frames) : frames[i].typehint = "ConnectionInfoReq"
    /\ send_failed

\* ------------------------------------------------------------ C3 ----
\* C3: the inbound path is first in, first out.  Every frame ws.recv()
\* returns is put on the queue once and as received; the frames leave the
\* queue in the order of their receipt, each at most once, so a frame
\* received before another is dispatched before it; and what unqueue does
\* with a frame is what the received frame calls for.
C3_Fifo ==
    LET taken   == [i \in 1..Len(events) |-> events[i].id]
        waiting == [i \in 1..Len(queue) |-> queue[i].id]
    IN /\ Len(wire) = nrecv
       /\ taken \o waiting = [i \in 1..nrecv |-> i]
       /\ \A i \in 1..Len(queue) : queue[i] = wire[queue[i].id]
       /\ \A i \in 1..Len(events) :
             events[i].out \in {"lost", Outcome(wire[events[i].id]).out}

\* Two frames were waiting together and both have been dispatched.
C3_Witness ==
    /\ Len(tick_start.queue) >= 2
    /\ \E i, j \in 1..Len(events) :
          /\ i < j
          /\ events[i].out = "dispatched"
          /\ events[j].out = "dispatched"

\* ------------------------------------------------------------ C4 ----
\* The step on which unqueue_and_display's loop ends and tick returns, for a
\* tick none of whose queue.get hand-offs timed out and whose client is
\* still running and connected, with its loop open, when it returns.
TickReturns ==
    /\ fgpc = "drain"
    /\ fgpc' = "idle"
    /\ stale_gets' = stale_gets
    /\ running'
    /\ ws' # "None"
    /\ bgpc' # "done"

\* C4: a tick on a running, connected client drains every message that was
\* queued when it began, also when decoding or dispatching one of them
\* raises: none of them is still in the queue when tick returns.
C4_TickDrainsTheQueue ==
    [][TickReturns => Ids(tick_start.queue) \cap Ids(queue') = {}]_vars

\* ------------------------------------------------------------ C5 ----
\* C5: when the queue holds an undecodable message followed by a valid one,
\* one drain by tick gives exactly one logged error and then one dispatch
\* of the valid message.
C5_ErrorThenDispatch ==
    [][(/\ TickReturns
        /\ Len(tick_start.queue) = 2
        /\ tick_start.queue[1].kind = "undecodable"
        /\ tick_start.queue[2].kind = "valid")
       => /\ Len(events') >= 2
          /\ events'[Len(events') - 1] =
                [id |-> tick_start.queue[1].id, out |-> "decode_error"]
          /\ events'[Len(events')] =
                [id |-> tick_start.queue[2].id, out |-> "dispatched"]]_vars

\* ------------------------------------------------------------ C6 ----
\* C6: the retries are bounded.  Over its lifetime a client makes at most
\* as many connection attempts as number_try_connection was at first (1);
\* number_try_connection never increases and never goes below 0; and once
\* it is 0 no later call (tick, setup, send_request) makes an attempt.
C6_BoundedRetry ==
    /\ [](/\ connects <= InitialTryConnection
          /\ number_try_connection \in 0..InitialTryConnection
          /\ connects = InitialTryConnection - number_try_connection)
    /\ [][/\ number_try_connection' <= number_try_connection
          /\ number_try_connection = 0 => connects' = connects]_vars

\* The one attempt has failed, the server was left running and is ready,
\* and a later call has reached connect_ensime_server again: it warned a
\* second time and connected nothing.
C6_Witness ==
    /\ connects = InitialTryConnection
    /\ number_try_connection = 0
    /\ escaped # {}
    /\ running
    /\ ws = "None"
    /\ server = "ready"
    /\ warnings >= 2

\* ------------------------------------------------------------ C7 ----
\* C7: a failed or timed-out connect, send or receive never raises out of
\* send_request, tick, setup or unqueue: no exception has left a
\* foreground call.
C7_NothingEscapes == escaped = {}

\* ------------------------------------------------------------ C8 ----
\* C8: an exception raised by JSON decoding or by a handler inside unqueue
\* is caught there.  It never reaches the caller of unqueue: no exception
\* of unqueue has left a foreground call, and unqueue of a queue whose
\* head makes json.loads or the handler raise returns normally.  It never
\* stops the background receive loop: running and the loop are as before.
\* And the message is removed from the queue.
C8_UnqueueCatches ==
    /\ escaped \cap {"Exception", "AttributeError", "RuntimeError"} = {}
    /\ \A i \in 1..Len(events) : events[i].id \notin Ids(queue)
    /\ (queue # << >> /\ Outcome(Head(queue)).raised /\ ws_loop = "open")
          => \A timeout0 \in BOOLEAN :
               LET c0 == Client("ok", 0)
                   c1 == unqueue(c0, timeout0, "got")
               IN /\ c1.exc = "none"
                  /\ c1.queue = Tail(queue)
                  /\ c1.running = running
                  /\ c1.ws_loop = ws_loop
                  /\ c1.ws = ws

\* unqueue has taken a message that made json.loads raise and one that made
\* its handler raise; the client still runs and the poller is in its loop.
C8_Witness ==
    /\ \E i \in 1..Len(events) : events[i].out = "decode_error"
    /\ \E i \in 1..Len(events) : events[i].out = "handler_error"
    /\ running
    /\ bgpc \in {"head", "recv"}

\* ------------------------------------------------------------ C9 ----
\* C9: one call of unqueue removes at most one message from the queue; it
\* returns True exactly when it removed a message and decoded it; having
\* decoded it, it dispatches to a handler if and only if the payload is not
\* null; with an empty queue it returns False and leaves the queue as it
\* was.
C9_UnqueueReturnsWhetherDecoded ==
    (fgpc = "idle" /\ ws_loop = "open")
      => \A ho \in Gets(Client("ok", 0)) :
           LET c1      == unqueue(Client("ok", 0), FALSE, ho)
               removed == Len(queue) - Len(c1.queue)
               decoded == removed = 1 /\ ~json_loads_raises(Head(queue).kind)
               handled == /\ Len(c1.events) > Len(events)
                          /\ c1.events[Len(c1.events)].out
                                \in {"dispatched", "handler_error"}
           IN /\ removed \in {0, 1}
              /\ c1.exc = "none"
              /\ c1.ret <=> decoded
              /\ decoded => (handled <=> Head(queue).kind # "null")
              /\ queue = << >> => (~c1.ret /\ c1.queue = queue)

\* ----------------------------------------------------------- C10 ----
\* C10: tick is idempotent on an idle client.  When the client is running,
\* its socket is set and its queue is empty, a tick makes no connection
\* attempt, launches nothing, sends no frame and dispatches no handler, and
\* leaves call_id, call_options, number_try_connection, ws, running and the
\* queue unchanged (as it leaves the warnings, the server stops and the
\* exceptions raised): both in its setup, after which it enters the loop of
\* unqueue_and_display, and, the queue being still empty, in the unqueue(0)
\* on which it returns.
C10_IdleTickIsIdempotent ==
    [][(\/ TickCall /\ running /\ ws # "None" /\ queue = << >>
        \/ DrainCall /\ tick_start.ws # "None" /\ tick_start.queue = << >>
                     /\ queue = << >>)
       => /\ fgpc' # fgpc
          /\ UNCHANGED << call_id, call_options, number_try_connection, ws,
                          running, queue, ensime, server, installed,
                          toggle_teardown, pending_connect, stale_gets,
                          connects, frames, returned, events, warnings,
                          stops, escaped, send_failed >>]_vars

\* A tick that began on a running client with a socket and an empty queue
\* has done its setup and is at its unqueue(0), the queue still empty.
C10_Witness ==
    /\ fgpc = "drain"
    /\ tick_start.ws # "None"
    /\ tick_start.queue = << >>
    /\ queue = << >>
    /\ running
    /\ connection_attempts = "lt1000"

\* ----------------------------------------------------------- C11 ----
\* C11: when handing a frame to the websocket fails, send reconnects once
\* (one call of connect_ensime_server, which either attempts a connect or,
\* the budget spent, warns) and hands the same message to the socket once
\* more; if that fails too the request is dropped: no third hand-off.
C11_SendReconnectsAndResends ==
    (fgpc = "idle" /\ running /\ ws # "None" /\ ws_loop = "open")
      => \A fail \in 1..2 :
           LET msg == [callId |-> call_id, typehint |-> "Req"]
               c1  == send(Client("ok", fail), msg)
               n   == Len(frames)
           IN /\ c1.exc = "none"
              /\ c1.connects + c1.warnings = connects + warnings + 1
              /\ Len(c1.frames) = n + 2
              /\ c1.frames[n + 1] = msg
              /\ c1.frames[n + 2] = msg

C13_DisabledSessionIsInert ==
    [][("UnboundLocalError" \in escaped
        /\ (TickCall \/ DrainCall \/ SetupCall \/ UnqueueCall
              \/ SendRequestCall))
       => /\ frames' = frames
          /\ connects' = connects
          /\ stops > 0 => stops' = stops
          /\ events' = events]_vars

\* ----------------------------------------------------------- C14 ----
\* C14: over the lifetime of one session the warning "A WS exception
\* happened, 'ensime-vim' has been disabled" is shown at most once, whatever
\* connect failures, receive failures and later calls of tick and setup
\* occur.
C14_OneWarning == warnings <= 1

C16_EventIsDispatched ==
    /\ \A i \in 1..Len(events) :
         wire[events[i].id].kind = "event"
           => events[i].out \in {"dispatched", "lost"}
    /\ (queue # << >> /\ Head(queue).kind = "event" /\ ws_loop = "open")
          => \A timeout0 \in BOOLEAN, opts \in SUBSET (0..MaxCalls) :
               LET m  == Head(queue)
                   c0 == [Client("ok", 0) EXCEPT !.call_options = opts]
                   c1 == unqueue(c0, timeout0, "got")
               IN /\ Outcome(m).call_id = "None"
                  /\ c1.exc = "none"
                  /\ c1.ret
                  /\ c1.queue = Tail(queue)
                  /\ c1.events = Append(events, [id  |-> m.id,
                                                 out |-> "dispatched"])
                  /\ c1.call_options = opts

\* unqueue has dispatched a message that had no callId.
C16_Witness ==
    \E i \in 1..Len(events) :
      /\ wire[events[i].id].kind = "event"
      /\ events[i].out = "dispatched"

\* ----------------------------------------------------------- C17 ----
\* C17: after teardown() has set running to False, the background receive
\* loop eventually exits and its event loop is closed, in whatever state
\* the session was at teardown: not yet connected, connected and idle with
\* the server kept alive, or blocked in recv.
C17_PollerExits == (~running) ~> (bgpc = "done")

\* ----------------------------------------------------------- C18 ----
\* C18: setup() returns True only if the server process handle exists and
\* the websocket connection is established (ws set), and False otherwise:
\* whatever its arguments and whatever the launch and the connect do, a
\* setup that returns True leaves ensime and ws set.
C18_SetupTrueMeansConnected ==
    fgpc = "idle"
      => \A b \in BOOLEAN, co \in Connects(Client("ok", 0)) :
           \A lo \in Launches(Client("ok", 0), b) :
             LET c1 == setup(Client(co, 0), b, lo)
             IN (c1.exc = "none" /\ c1.ret)
                  => (c1.ensime # "None" /\ c1.ws # "None")

\* ----------------------------------------------------------- C19 ----
\* C19: client_for returns the cached client whenever the absolute path of
\* the config has one, creating nothing; an entry of Ensime.clients is never
\* replaced, two paths never share a client, and a client is in
\* Ensime.clients only if its setup() returned True.
C19_OneClientPerPath ==
    /\ [](\A p \in AbsPaths : clients[p] # 0 =>
            /\ clients[p] \in 1..Len(sessions)
            /\ sessions[clients[p]].path = p
            /\ sessions[clients[p]].setup_ret
            /\ \A config_path \in ConfigPaths, b \in BOOLEAN,
                  create \in BOOLEAN, inst \in BOOLEAN, lo \in LaunchOutcomes :
                 abspath(config_path) = p =>
                   LET r == client_for(config_path, b, create, inst, lo)
                   IN /\ r.client = clients[p]
                      /\ r.sessions = sessions
                      /\ r.clients = clients)
    /\ [][\A p \in AbsPaths : clients[p] # 0 =>
            /\ clients'[p] = clients[p]
            /\ \A i \in 1..Len(sessions') :
                 i > Len(sessions) => sessions'[i].path # p]_vars

C19_Witness ==
    /\ Len(sessions) = 2
    /\ sessions[1].path = "/p/.ensime" /\ ~sessions[1].setup_ret
    /\ sessions[2].path = "/p/.ensime" /\ clients["/p/.ensime"] = 2
    /\ ~sessions[2].c.running

\* ----------------------------------------------------------- C20 ----
\* C20: a tick, a request, an unqueue, a connection failure or a teardown of
\* one client leaves the call_id, call_options, queue, ws, running flag and
\* retry budget of every other client as they were.
C20_SessionsAreIndependent ==
    [][\A i \in 1..Len(sessions) :
         ( \/ \E co \in Connects(sessions[i].c),
                  lo \in Launches(sessions[i].c, FALSE) :
                SessionTick(i, co, lo)
           \/ SessionSendRequest(i)
           \/ SessionUnqueue(i)
           \/ SessionRecvFail(i)
           \/ SessionTeardown(i) )
         => /\ Len(sessions') = Len(sessions)
            /\ \A j \in 1..Len(sessions) \ {i} :
                 LET a == sessions[j].c
                     b == sessions'[j].c
                 IN /\ b.call_id = a.call_id
                    /\ b.call_options = a.call_options
                    /\ b.queue = a.queue
                    /\ b.ws = a.ws
                    /\ b.running = a.running
                    /\ b.number_try_connection = a.number_try_connection]_vars

C20_Witness ==
    /\ Len(sessions) = 2
    /\ ~sessions[1].c.running /\ sessions[1].c.call_id = 1
    /\ sessions[2].c.running /\ sessions[2].c.ws # "None"
    /\ sessions[2].c.call_id = 1 /\ sessions[2].c.call_options = {}
    /\ sessions[2].c.queue # << >>

\* ----------------------------------------------------------- C21 ----
\* C21: when the launch made by setup() fails with InvalidJavaPathError,
\* setup shows the 'invalid_java' message and returns False, no exception
\* leaves it, the server handle stays unset, no process is spawned and no
\* connection is attempted; and as long as that was the last launch the
\* client has no server handle and has never tried to connect.
C21_InvalidJavaIsReported ==
    /\ (fgpc = "idle" /\ strategy # "None") =>
         \A b \in BOOLEAN, co \in ConnectOutcomes, sbt \in SbtOutcomes :
           LET c0 == Client(co, 0)
               r  == EnsimeLauncher_launch(strategy, files, sbt)
               c1 == setup(c0, b, r.out)
           IN (Launching(c0, b) /\ r.out = "InvalidJavaPathError") =>
                /\ c1.exc = "none" /\ ~c1.ret
                /\ c1.msg = "invalid_java"
                /\ c1.ensime = "None" /\ r.spawned = 0
                /\ c1.connects = connects /\ c1.ws = ws /\ c1.frames = frames
                /\ c1.number_try_connection = number_try_connection
    /\ launched = "InvalidJavaPathError" =>
         /\ "invalid_java" \in shown
         /\ ensime = "None" /\ connects = 0 /\ spawned = 0
         /\ "InvalidJavaPathError" \notin escaped

C21_Witness ==
    /\ launched = "InvalidJavaPathError" /\ files.java = "not_executable"
    /\ shown = {"invalid_java"} /\ ensime = "None" /\ escaped = {}
    /\ bgpc = "head" /\ running

\* ----------------------------------------------------------- C22 ----
\* C22: the launcher made for a client has the AssemblyJar strategy if an
\* assembly jar is in base_dir, else DotEnsimeLauncher if .ensime lists
\* ensime-server-jars, else SbtBootstrap.
C22_StrategyPrecedence ==
    [][\A f \in Files : NewLauncher(f) =>
         strategy' = CASE f.assembly_jar -> "AssemblyJar"
                       [] ~f.assembly_jar /\ f.server_jars # "unlisted" ->
                            "DotEnsimeLauncher"
                       [] OTHER -> "SbtBootstrap"]_vars

C22_Witness ==
    /\ strategy = "AssemblyJar"
    /\ files.assembly_jar /\ files.server_jars = "present"
    /\ files.classpath_file
    /\ launched = "proc" /\ spawned = 1

\* ----------------------------------------------------------- C23 ----
\* C23: launch() of each strategy, called while its isinstalled() is false,
\* raises LaunchError and spawns no process; a launch that ended in
\* LaunchError has left the client without a server.
C23_LaunchRaisesWhenNotInstalled ==
    /\ \A st \in Strategies :
         ~isinstalled(st, files) =>
           strategy_launch(st, files) = [out |-> "LaunchError", spawned |-> 0]
    /\ launched = "LaunchError" =>
         spawned = 0 /\ ensime = "None" /\ server = "down"

C23_Witness ==
    /\ launched = "LaunchError" /\ strategy = "AssemblyJar"
    /\ ~files.assembly_jar /\ files.java = "ok"
    /\ spawned = 0 /\ ensime = "None"

\* ----------------------------------------------------------- C24 ----
\* C24: a step of the background thread (run_queuer, queue_poll and the
\* coroutines on its loop) changes nothing of the session but the socket
\* handle and the queue: the running flag, the server process (stop) and the
\* editor (the warning shown) are changed by foreground calls only.
C24_PollerTouchesSocketAndQueueOnly ==
    [][(RunQueuer \/ QueuePoll \/ RecvFail \/ StaleGetCancelled
        \/ LateConnectEnds)
       => /\ running' = running
          /\ stops' = stops /\ server' = server
          /\ warnings' = warnings]_vars

\* ----------------------------------------------------------- C25 ----
\* C25: when unqueue has returned, no queue.get() that it handed to the
\* background loop is still pending there, so the get of a later unqueue
\* call is the only one on the loop.
C25_OneGetPending == stale_gets = 0

\* ----------------------------------------------------------- C26 ----
\* C26: every frame the receive loop has put on the queue is either still
\* in the queue or was taken by exactly one unqueue call, which dispatched
\* it or logged and dropped it; none is taken by a get whose unqueue call
\* timed out.
C26_NoMessageLost ==
    \A k \in 1..Len(wire) :
      LET took == {i \in 1..Len(events) : events[i].id = wire[k].id}
      IN /\ (wire[k].id \in Ids(queue)) # (took # {})
         /\ Cardinality(took) <= 1
         /\ \A i \in took : events[i].out # "lost"

C28_WsOnlyFromASuccessfulHandOff ==
    [][(ws = "None" /\ ws' # "None")
       => (connects' = connects + 1 /\ warnings' = warnings
           /\ warnings = 0)]_vars

\* ----------------------------------------------------------- C29 ----
\* C29: as long as the background thread has not made ws_loop and the
\* queue, the retry budget is whole, the server has not been stopped and
\* no warning was shown: a connect is not tried on a loop that is not there.
C29_NoConnectBeforeTheLoop ==
    (bgpc = "init" /\ running) =>
       /\ number_try_connection = InitialTryConnection
       /\ stops = 0 /\ warnings = 0

\* ----------------------------------------------------------- C30 ----
\* C30: once running is False it stays False, and from then on a tick, a
\* setup or a request sends no frame, launches nothing and connects
\* nothing, and unqueue_and_display takes no message from the queue.
C30_TornDownStaysDown ==
    [][~running =>
         /\ ~running'
         /\ (TickCall \/ DrainCall \/ SetupCall \/ SendRequestCall) =>
              /\ frames' = frames /\ connects' = connects
              /\ ensime' = ensime /\ server' = server
         /\ (TickCall \/ DrainCall) =>
              (events' = events /\ queue' = queue)]_vars

\* ----------------------------------------------------------- C31 ----
\* C31: a send_request made while the client has no socket or is no longer
\* running is dropped.  The call still returns the current call_id and adds
\* one to it, but hands no frame to the socket; and no later step sends it,
\* since the frames only grow at the end and every frame a step adds carries
\* a callId that is at least the call_id the step started with, which is
\* above the callId of every request dropped before.
C31_DroppedRequestIsNeverSent ==
    [][ /\ (SendRequestCall /\ (ws = "None" \/ ~running)) =>
              /\ frames' = frames
              /\ call_id' = call_id + 1
              /\ returned' = Append(returned, [built |-> call_id,
                                               ret   |-> call_id])
        /\ Len(frames') >= Len(frames)
        /\ SubSeq(frames', 1, Len(frames)) = frames
        /\ \A k \in (Len(frames) + 1)..Len(frames') :
              frames'[k].callId >= call_id ]_vars

\* The first request was made before any socket existed and got callId 0; a
\* later connect succeeded and its ConnectionInfoReq was sent, and no frame
\* carries callId 0.
C31_Witness ==
    /\ Len(returned) >= 2
    /\ returned[1].built = 0
    /\ ws # "None"
    /\ frames # << >>
    /\ \A k \in 1..Len(frames) : frames[k].callId # 0

\* ----------------------------------------------------------- C33 ----
\* C33: the session calls stop() on the server process handle only as part
\* of teardown: a step in which stop() is called leaves running False.
\* (is_ready() is read in one place, ready_to_connect, behind `not self.ws`.)
C33_StopOnlyInTeardown ==
    [][stops' > stops => ~running']_vars

\* ----------------------------------------------------------- C34 ----
\* C34: while toggle_teardown is False no step calls stop(): not teardown(),
\* not a failed or refused connect, not the poller's teardown after a failed
\* recv; the server process is left as it is.  do_toggle_teardown flips the
\* flag and changes nothing else, and applied twice it gives back the client
\* it started from.
C34_KeptAliveServerIsNotStopped ==
    /\ [](LET c == Client("ok", 0)
          IN /\ do_toggle_teardown(c).toggle_teardown = ~c.toggle_teardown
             /\ do_toggle_teardown(do_toggle_teardown(c)) = c
             /\ ~c.toggle_teardown =>
                  /\ teardown(c).stops = c.stops
                  /\ teardown(c).server = c.server
                  /\ ~teardown(c).running
                  /\ \A co \in ConnectOutcomes :
                       LET c1 == connect_ensime_server([c EXCEPT !.co = co])
                       IN c1.stops = c.stops /\ c1.server = c.server)
    /\ [][~toggle_teardown => (stops' = stops /\ (server' = "stopped" => server = "stopped"))]_vars
    /\ [][ToggleTeardown =>
            (toggle_teardown' = do_toggle_teardown(Client("ok", 0)).toggle_teardown)]_vars

\* With the flag off, a connect has failed (the warning was shown) and the
\* client was torn down, and the process was never stopped.
C34_Witness ==
    /\ ~toggle_teardown
    /\ ensime # "None"
    /\ warnings > 0
    /\ ~running
    /\ stops = 0
    /\ server # "stopped"

\* ----------------------------------------------------------- C40 ----
\* C40: every client client_for has created is the entry of Ensime.clients
\* for its project, so the loop of Ensime.teardown() over clients.values()
\* reaches every client ever created, and no project has had two clients.
C40_EveryClientIsStored ==
    /\ \A i \in 1..Len(sessions) : clients[sessions[i].path] = i
    /\ \A i, j \in 1..Len(sessions) :
          sessions[i].path = sessions[j].path => i = j

\* ----------------------------------------------------------- C32 ----
\* C32: a command that registers options (symbol_by_name,
\* open_declaration_split, open_declaration and symbol through
\* symbol_at_point_req, usages, doc_browse) stores them under the call_id it
\* starts with, which is the callId of the one request it then builds, and
\* touches no other key.  So every key of call_options is the callId of
\* exactly one request, every later request gets a higher callId, and a frame
\* whose callId is a key is the request of the command that stored those
\* options; the ConnectionInfoReq has no options.
C32_OptionsKeyIsTheCallId ==
    /\ [](/\ DOMAIN call_option_values = call_options
          /\ \A k \in call_options :
                /\ k < call_id
                /\ Cardinality({ i \in 1..Len(returned) :
                                    returned[i].built = k }) = 1
          /\ \A i \in 1..Len(frames) :
                LET k == frames[i].callId
                    t == frames[i].typehint
                IN IF k \in call_options
                   THEN LET names == DOMAIN call_option_values[k]
                        IN CASE "browse" \in names ->
                                  t = "DocUriAtPointReq"
                             [] "word_under_cursor" \in names ->
                                  t = "UsesOfSymbolAtPointReq"
                             [] "display" \in names ->
                                  t = "SymbolAtPointReq"
                             [] OTHER ->
                                  t = "SymbolByNameReq"
                   ELSE t \in {"ConnectionInfoReq", "DocUriAtPointReq"})
    /\ [][call_option_values' # call_option_values =>
            /\ call_id \notin call_options
            /\ DOMAIN call_option_values' = call_options \cup {call_id}
            /\ \A k \in call_options :
                  call_option_values'[k] = call_option_values[k]
            /\ returned' = Append(returned, [built |-> call_id,
                                             ret   |-> call_id])]_vars

\* The client is connected: its ConnectionInfoReq was sent without options,
\* and a later command's request was sent under the key of its options.
C32_Witness ==
    /\ \E i \in 1..Len(frames) :
          frames[i].typehint = "ConnectionInfoReq"
    /\ \E i \in 1..Len(frames) :
          /\ frames[i].callId \in call_options
          /\ frames[i].callId > 0

\* ----------------------------------------------------------- C36 ----
\* C36: while the handler is buffering, the buffer holds the notes the
\* handlers were given since the last start_typechecking, in the order they
\* came, and handle_typecheck_complete gives the editor exactly those notes,
\* empties the buffer and stops buffering.  While it is not buffering,
\* handle_typecheck_complete shows nothing and changes nothing.
C36_CompleteDisplaysTheBufferedNotes ==
    /\ [](LET h == Handler
              r == handle_typecheck_complete(h)
          IN IF currently_buffering_typechecks
             THEN /\ buffered_notes = notes_received
                  /\ r.displayed = Append(displayed, notes_received)
                  /\ ~r.currently_buffering_typechecks
                  /\ r.buffered_notes = << >>
             ELSE r = h)
    /\ [][HandleTypecheckComplete =>
            IF currently_buffering_typechecks
            THEN /\ displayed' = Append(displayed, notes_received)
                 /\ ~currently_buffering_typechecks'
                 /\ buffered_notes' = << >>
            ELSE UNCHANGED vars]_vars

\* A typecheck was asked for, two different notes came in two payloads, and
\* the completion event displayed them in that order.
C36_Witness ==
    /\ ~currently_buffering_typechecks
    /\ displayed = << << "b", "a" >> >>
    /\ notes_received = << "b", "a" >>
    /\ buffered_notes = << >>
    /\ call_id = 1

\* ----------------------------------------------------------- C37 ----
\* C37: whenever the typecheck handler is not buffering its buffer is
\* empty, whatever the order of type_check_cmd, buffer_typechecks,
\* buffer_typechecks_and_display and handle_typecheck_complete: notes that
\* come while it is not buffering are not stored.
C37_NotBufferingMeansEmptyBuffer ==
    ~currently_buffering_typechecks => buffered_notes = << >>

\* Notes came while the handler was not buffering, one payload through
\* buffer_typechecks_and_display, which displayed an empty list.
C37_Witness ==
    /\ ~currently_buffering_typechecks
    /\ notes_received # << >>
    /\ displayed # << >>
    /\ displayed[Len(displayed)] = << >>
    /\ buffered_notes = << >>

\* ----------------------------------------------------------- C35 ----
\* C35: a cursor-moved, cursor-hold or timer event ticks every client in
\* Ensime.clients, so after the event the queue of every cached client that
\* is running and connected has been drained.
C35_EventsDrainTheQueues ==
    [][ui_events' > ui_events =>
         \A i \in 1..Len(sessions') :
            clients'[sessions'[i].path] = i =>
               LET c == sessions'[i].c
               IN (c.running /\ c.ws # "None" /\ c.ws_loop = "open")
                     => c.queue = << >>]_vars

\* ----------------------------------------------------------- C38 ----
\* C38: a second phase of complete_func (findstart # 1) that was not
\* preceded by a first phase returns the empty list and takes nothing from
\* the queue; and after every second phase completion_started is False and
\* suggestions is None.
C38_SecondPhaseResets ==
    [][(/\ Len(completions') > Len(completions)
        /\ completions'[Len(completions')].findstart = 0) =>
          /\ ~completion_started =>
                /\ completions'[Len(completions')].result = << >>
                /\ queue' = queue
                /\ events' = events
          /\ ~completion_started'
          /\ suggestions' = "None"]_vars

\* ----------------------------------------------------------- C39 ----
\* C39: a second phase of complete_func that follows a first phase, finds
\* the completion reply in the queue, behind other messages or not, and gets
\* a message from the queue in time, returns the suggestions of that reply.
C39_SecondPhaseFindsTheReply ==
    [][(/\ Len(completions') > Len(completions)
        /\ completions'[Len(completions')].findstart = 0
        /\ completion_started
        /\ queue' # queue
        /\ \E j \in 1..Len(queue) : queue[j].kind = "completions") =>
          LET j == CHOOSE j \in 1..Len(queue) :
                      /\ queue[j].kind = "completions"
                      /\ \A i \in 1..(j - 1) : queue[i].kind # "completions"
          IN completions'[Len(completions')].result = << queue[j].id >>]_vars

=============================================================================
